---- MODULE Spec2Model ----
(***************************************************************************)
(* A model of the resync simulator's sitemap codec (src/resync/sitemap.py) *)
(* and of the data it reads and writes.                                    *)
(*                                                                         *)
(* Strings that the code only compares for equality are TLA+ strings.      *)
(* File names and URIs, which the code also builds, tests by prefix and    *)
(* sorts, are sequences of string tokens (a stem, decimal digits, ".xml"); *)
(* Rank gives the order of the tokens' first characters, so that LexLess   *)
(* on token sequences is Python's order on the strings they stand for.     *)
(* An optional value (Python's None) is <<>>, a present value v is <<v>>.  *)
(***************************************************************************)
EXTENDS Integers, Sequences, FiniteSets, TLC

VARIABLES
    max_sitemap_entries,  \* Sitemap.max_sitemap_entries
    allow_multifile,      \* Sitemap.allow_multifile
    mapper,               \* Sitemap.mapper: "None", "Maps" or "NoRule"
    fs,                   \* the files and served documents: name -> content
    now,                  \* the clock behind os.stat(file).st_mtime
    remote_length,        \* whether the remote server sends a Content-Length
    mode,                 \* which entry point this behaviour exercises
    \* ---- write(resources, basename)
    w_resources,          \* the container handed to write()
    basename,             \* write()'s basename
    wpc,                  \* write()'s position
    werr,                 \* the exception write() raised, "" if none
    resources_iter,       \* what the iterator has still to yield
    chunk,                \* write()'s chunk
    next,                 \* write()'s next (the overflow item), optional
    first_arg,            \* the carry-over handed to the last get_resources_chunk
    pulled_from,          \* what the iterator had to yield before that call
    peak,                 \* largest length the chunk list had in the last pull
    sitemaps,             \* write()'s sitemaps: <<[file, mtime]>> in creation order
    \* ---- read(uri, resources) and the parse entry points
    uri,                  \* read()'s uri
    r_resources,          \* the container read into
    r_initial,            \* what that container held when the call began
    entry,                \* the entry point called: "read" or a parse method
    rpc,                  \* read()'s position
    rerr,                 \* the exception raised: [kind, etree]
    todo,                 \* part locations the index loop has still to visit
    index_order,          \* the order in which the index document lists its parts
    sitemaps_created,     \* Sitemap.sitemaps_created
    resources_created,    \* Sitemap.resources_created
    content_length,       \* Sitemap.content_length
    bytes_read,           \* Sitemap.bytes_read
    fetched,              \* the locations opened by the current read()
    calls,                \* read() calls, or static inventory runs, begun before
    \* ---- the element codec called on its own
    codec_arg,            \* the argument of the call
    codec_ret,            \* what the call returned or raised, <<>> before it
    \* ---- Source (source.py): the change simulation on the main thread
    repository,           \* Source._repository: basename -> [timestamp, size]
    max_res_id,           \* Source.max_res_id, Inventory.max_res_id (resyncsim)
    max_events,           \* config['max_events']
    no_events,            \* simulate_changes' no_events
    iterations,           \* turns of simulate_changes' loop begun so far
    notified,             \* the events handed to notify_observers, in order
    mpc,                  \* the main thread's position
    updating,             \* the basename _update_resource is working on, optional
    assigned,             \* the identifiers assigned by a create without argument
    \* ---- SourceInventory.generate on the scheduler thread
    gpc,                  \* generate()'s position
    gkeys,                \* the keys Source.resources has still to visit
    gkey,                 \* the basename Source.resource is reading, optional
    ginv,                 \* the inventory's resources: basename -> [timestamp, size]
    gstart,               \* the repository's keys when generate() began
    gdeleted,             \* the basenames deleted since generate() began
    \* ---- Inventory (resyncsim/inventory.py)
    current_resources,    \* Inventory.current_resources: id -> resource
    deleted_resources,    \* Inventory.deleted_resources
    updated_resources,    \* Inventory.updated_resources
    last_call             \* the last call made, its outcome and the state before it

cfgvars == <<max_sitemap_entries, allow_multifile, mapper, mode, remote_length>>
wvars == <<w_resources, basename, wpc, werr, resources_iter, chunk, next, first_arg,
           pulled_from, peak, sitemaps>>
rvars == <<uri, r_resources, r_initial, entry, rpc, rerr, todo, index_order, sitemaps_created,
           resources_created, content_length, bytes_read, fetched>>
xvars == <<calls, codec_arg, codec_ret>>
srcvars == <<repository, max_res_id, max_events, no_events, iterations, notified, mpc, updating,
             assigned>>
genvars == <<gpc, gkeys, gkey, ginv, gstart, gdeleted>>
invvars == <<current_resources, deleted_resources, updated_resources, last_call>>
svars == <<srcvars, genvars, invvars>>
vars == <<cfgvars, fs, now, wvars, rvars, xvars, svars>>

\* ------------------------------------------------------------------ bounds

MaxT == 2
MaxN == 4
MaxParts == 3
MaxPer == 2
MaxCaps == 2
MaxCalls == 2
MaxRuns == 2
MaxBoot == 1
MaxEvents == 3
MaxPayload == 1

\* ------------------------------------------------------------ basic values

None == <<>>
Some(v) == <<v>>
IsNone(o) == o = <<>>
Val(o) == o[1]

Digits == <<"0", "1", "2", "3", "4", "5", "6", "7", "8", "9">>

\* first-character order of the tokens: '.' < '/' < '0'..'9' < 'f' < 'h'
Rank(tok) ==
    CASE tok = ".xml" -> 46
      [] tok = "/tmp/sitemap" -> 47
      [] tok = "/tmp/other" -> 47
      [] tok \in {Digits[i] : i \in 1..10} -> 47 + (CHOOSE i \in 1..10 : Digits[i] = tok)
      [] tok = "file://" -> 102
      [] tok = "http://example.org/sitemap" -> 104
      [] tok = "http://example.org/res" -> 104
      [] OTHER -> 200

RECURSIVE LexLess(_, _)
LexLess(a, b) ==
    IF b = <<>> THEN FALSE
    ELSE IF a = <<>> THEN TRUE
    ELSE IF Head(a) = Head(b) THEN LexLess(Tail(a), Tail(b))
    ELSE Rank(Head(a)) < Rank(Head(b))

\* sorted(..., reverse=True)
RECURSIVE sorted_descending(_)
sorted_descending(S) ==
    IF S = {} THEN <<>>
    ELSE LET m == CHOOSE x \in S : \A y \in S \ {x} : LexLess(y, x)
         IN <<m>> \o sorted_descending(S \ {m})

\* Python's sorted() on a set of names
RECURSIVE sorted(_)
sorted(S) ==
    IF S = {} THEN <<>>
    ELSE LET m == CHOOSE x \in S : \A y \in S \ {x} : LexLess(x, y)
         IN <<m>> \o sorted(S \ {m})

Range(s) == {s[i] : i \in DOMAIN s}

Perms(S) == {p \in [1..Cardinality(S) -> S] : Range(p) = S}

\* ------------------------------------------------------- names and the mapper

RECURSIVE DecimalDigits(_)
DecimalDigits(k) ==
    IF k < 10 THEN <<Digits[k + 1]>>
    ELSE Append(DecimalDigits(k \div 10), Digits[(k % 10) + 1])

RECURSIVE ZeroPad(_, _)
ZeroPad(ds, width) == IF Len(ds) >= width THEN ds ELSE ZeroPad(<<"0">> \o ds, width)

\* "%05d" % k
PadWidth == 5
Format05d(k) == ZeroPad(DecimalDigits(k), PadWidth)

\* basename[-4:] == '.xml'
EndsWithXml(name) == Len(name) > 0 /\ name[Len(name)] = ".xml"

sitemap_prefix(base) == IF EndsWithXml(base) THEN SubSeq(base, 1, Len(base) - 1) ELSE base
sitemap_suffix == <<".xml">>

\* PartFile without lines 93-94: the number is appended to the whole basename
PartFile_no_strip(base, k) == base \o Format05d(k) \o sitemap_suffix

PartFile(base, k) == sitemap_prefix(base) \o Format05d(k) \o sitemap_suffix

\* is_file_uri without re.match('/', uri): only a file: URI counts as local
is_file_uri_scheme_only(u) == Len(u) > 0 /\ Head(u) = "file://"

is_file_uri(u) == Len(u) > 0 /\ (Head(u) = "file://" \/ Rank(Head(u)) = 47)

\* Mapper([base_uri, path]).dst_to_src(file): <<ok, uri>>
dst_to_src(file) ==
    IF mapper = "Maps" /\ Len(file) > 0 /\ Head(file) = "/tmp/sitemap"
    THEN [ok |-> TRUE, uri |-> <<"http://example.org/sitemap">> \o Tail(file)]
    ELSE [ok |-> FALSE, uri |-> <<>>]

\* Mapper([base_uri, path]).src_to_dst(uri): <<ok, file>>
src_to_dst(u) ==
    IF mapper = "Maps" /\ Len(u) > 0 /\ Head(u) = "http://example.org/sitemap"
    THEN [ok |-> TRUE, file |-> <<"/tmp/sitemap">> \o Tail(u)]
    ELSE [ok |-> FALSE, file |-> <<>>]

\* ------------------------------------------------------------- resources

Resource(u, ts, sz, md, ct) ==
    [uri |-> u, timestamp |-> ts, size |-> sz, md5 |-> md, changetype |-> ct]

\* Resource.lastmod (getter): the W3C datetime text of the timestamp
lastmod_get(ts) == [k |-> "w3c", v |-> ts]

\* str(n) of an integer
StrOfInt(n) == [k |-> "num", v |-> n]

\* str(s) of a string
StrOfStr(s) == [k |-> "txt", v |-> s]

\* Resource.lastmod (setter): the timestamp of a W3C datetime text
lastmod_set(text) ==
    IF text.k = "w3c" THEN [ok |-> TRUE, timestamp |-> Some(text.v)]
    ELSE [ok |-> FALSE, timestamp |-> None]

\* int(text)
IntOfStr(text) ==
    IF text.k = "num" THEN [ok |-> TRUE, v |-> text.v] ELSE [ok |-> FALSE, v |-> 0]

\* a text that is neither a decimal number nor a W3C datetime
Garbled == [k |-> "bad", v |-> 0]

\* --------------------------------------------------- element <-> resource

NoElement == [tag |-> "", loc |-> None, lastmod |-> None, expires |-> None,
              size |-> None, fixity |-> None]

Ok(v) == [ok |-> TRUE, err |-> "", v |-> v]
Raise(kind, v) == [ok |-> FALSE, err |-> kind, v |-> v]

\* TimestampChild without lines 239-240: a DELETED resource falls through to
\* the plain <lastmod>
TimestampChild_no_expires(resource) ==
    LET ct == resource.changetype
        text == lastmod_get(Val(resource.timestamp))
    IN  IF IsNone(ct) \/ Val(ct) = "DELETED"
        THEN Ok([name |-> "lastmod", type |-> None, text |-> text])
        ELSE IF Val(ct) = "CREATED"
             THEN Ok([name |-> "lastmod", type |-> Some("created"), text |-> text])
        ELSE IF Val(ct) = "UPDATED"
             THEN Ok([name |-> "lastmod", type |-> Some("updated"), text |-> text])
        ELSE Raise("Exception", [name |-> "", type |-> None, text |-> text])

\* the <lastmod> or <expires> child built at sitemap.py:228-246
TimestampChild(resource) ==
    LET ct == resource.changetype
        text == lastmod_get(Val(resource.timestamp))
    IN  IF IsNone(ct) THEN Ok([name |-> "lastmod", type |-> None, text |-> text])
        ELSE IF Val(ct) = "CREATED"
             THEN Ok([name |-> "lastmod", type |-> Some("created"), text |-> text])
        ELSE IF Val(ct) = "UPDATED"
             THEN Ok([name |-> "lastmod", type |-> Some("updated"), text |-> text])
        ELSE IF Val(ct) = "DELETED"
             THEN Ok([name |-> "expires", type |-> None, text |-> text])
        ELSE Raise("Exception", [name |-> "", type |-> None, text |-> text])

resource_etree_element(resource, element_name) ==
    LET hasts == ~IsNone(resource.timestamp)
        tc == IF hasts THEN TimestampChild(resource)
              ELSE Ok([name |-> "", type |-> None, text |-> StrOfStr("")])
        e == [tag |-> element_name,
              loc |-> Some(resource.uri),
              lastmod |-> IF hasts /\ tc.v.name = "lastmod"
                          THEN Some([text |-> Some(tc.v.text), type |-> tc.v.type])
                          ELSE None,
              expires |-> IF hasts /\ tc.v.name = "expires" THEN Some(tc.v.text) ELSE None,
              size |-> IF IsNone(resource.size) THEN None
                       ELSE Some(StrOfInt(Val(resource.size))),
              fixity |-> IF IsNone(resource.md5) THEN None
                         ELSE Some([type |-> Some("md5"),
                                    text |-> Some(StrOfStr(Val(resource.md5)))])]
    IN  IF tc.ok THEN Ok(e) ELSE Raise(tc.err, NoElement)

NoResource == Resource(<<>>, None, None, None, None)

\* ParsedTimes with lines 302-305 before lines 289-300: <lastmod> is applied
\* last and wins over <expires>
ParsedTimes_lastmod_wins(etree) ==
    LET lm == etree.lastmod
        lmset == IF ~IsNone(lm) /\ ~IsNone(Val(lm).text)
                 THEN lastmod_set(Val(Val(lm).text))
                 ELSE [ok |-> TRUE, timestamp |-> None]
        lmtype == IF IsNone(lm) THEN None ELSE Val(lm).type
        exset == IF IsNone(etree.expires) THEN [ok |-> TRUE, timestamp |-> None]
                 ELSE lastmod_set(Val(etree.expires))
    IN  IF ~lmset.ok \/ ~exset.ok THEN [ok |-> FALSE, timestamp |-> None, changetype |-> None]
        ELSE [ok |-> TRUE,
              timestamp |-> IF IsNone(lmset.timestamp) THEN exset.timestamp
                            ELSE lmset.timestamp,
              changetype |-> IF ~IsNone(lmtype) /\ Val(lmtype) = "created" THEN Some("CREATED")
                             ELSE IF ~IsNone(lmtype) /\ Val(lmtype) = "updated"
                                  THEN Some("UPDATED")
                             ELSE IF IsNone(etree.expires) THEN None ELSE Some("DELETED")]

\* lines 289-307: timestamp and change type from <lastmod> and <expires>
ParsedTimes(etree) ==
    LET lm == etree.lastmod
        lmset == IF ~IsNone(lm) /\ ~IsNone(Val(lm).text)
                 THEN lastmod_set(Val(Val(lm).text))
                 ELSE [ok |-> TRUE, timestamp |-> None]
        lmtype == IF IsNone(lm) THEN None ELSE Val(lm).type
        ct1 == IF IsNone(lmtype) THEN None
               ELSE IF Val(lmtype) = "created" THEN Some("CREATED")
               ELSE IF Val(lmtype) = "updated" THEN Some("UPDATED")
               ELSE None
        exset == IF IsNone(etree.expires) THEN [ok |-> TRUE, timestamp |-> None]
                 ELSE lastmod_set(Val(etree.expires))
    IN  IF ~lmset.ok THEN [ok |-> FALSE, timestamp |-> None, changetype |-> None]
        ELSE IF IsNone(etree.expires)
             THEN [ok |-> TRUE, timestamp |-> lmset.timestamp, changetype |-> ct1]
        ELSE IF ~exset.ok THEN [ok |-> FALSE, timestamp |-> None, changetype |-> None]
        ELSE [ok |-> TRUE, timestamp |-> exset.timestamp, changetype |-> Some("DELETED")]

\* lines 317-327: md5 from <rs:fixity type="md5">
ParsedMd5(etree) ==
    LET fx == etree.fixity
    IN  IF IsNone(fx) \/ IsNone(Val(fx).type) THEN None
        ELSE IF Val(Val(fx).type) = "md5"
             THEN (IF IsNone(Val(fx).text) THEN None ELSE Some(Val(Val(fx).text).v))
        ELSE None

resource_from_etree(etree) ==
    LET times == ParsedTimes(etree)
        sz == IF IsNone(etree.size) THEN [ok |-> TRUE, v |-> 0] ELSE IntOfStr(Val(etree.size))
    IN  IF IsNone(etree.loc) THEN Raise("SitemapError", NoResource)
        ELSE IF ~times.ok THEN Raise("ValueError", NoResource)
        ELSE IF ~sz.ok THEN Raise("Exception", NoResource)
        ELSE Ok(Resource(Val(etree.loc), times.timestamp,
                         IF IsNone(etree.size) THEN None ELSE Some(sz.v),
                         ParsedMd5(etree), times.changetype))

\* ------------------------------------------------------------ documents

\* a file opened for writing and not written: parse() fails on it
EmptyFile == [xml |-> FALSE, root |-> "", links |-> <<>>, children |-> <<>>]

Document(root, links, children) ==
    [xml |-> TRUE, root |-> root, links |-> links, children |-> children]

\* etree.findall('{SITEMAP_NS}' + tag)
findall(etree, tag) == SelectSeq(etree.children, LAMBDA e : e.tag = tag)

\* ' '.join(value)
RECURSIVE JoinSpace(_)
JoinSpace(value) ==
    IF value = <<>> THEN ""
    ELSE IF Len(value) = 1 THEN value[1]
    ELSE value[1] \o " " \o JoinSpace(Tail(value))

\* the attributes of one xhtml:link (lines 523-531); a capability attribute
\* is [str |-> TRUE, v |-> string] or [str |-> FALSE, v |-> sequence of strings]
LinkAtts(c, attset) ==
    LET keys == {IF a = "attributes" THEN "rel" ELSE a : a \in DOMAIN attset}
        src(k) == IF k = "rel" /\ "attributes" \in DOMAIN attset THEN "attributes" ELSE k
        text(a) == IF attset[a].str THEN attset[a].v ELSE JoinSpace(attset[a].v)
    IN  [k \in keys \cup {"href"} |->
            IF k \in keys THEN StrOfStr(text(src(k))) ELSE [k |-> "uri", v |-> c]]

\* add_capabilities_to_etree: the xhtml:link elements, sorted by capability URI
add_capabilities_to_etree(capabilities) ==
    LET cs == sorted(DOMAIN capabilities)
    IN  [i \in 1..Len(cs) |-> [tag |-> "xhtml:link", atts |-> LinkAtts(cs[i], capabilities[cs[i]])]]

\* a Python list has no attribute 'capabilities'
HasCapabilities(resources) == resources.type # "list"

List(items) == [type |-> "list", items |-> items]

RECURSIVE ElementsOf(_)
ElementsOf(items) ==
    IF items = <<>> THEN Ok(<<>>)
    ELSE LET e == resource_etree_element(Head(items), "url")
             rest == ElementsOf(Tail(items))
         IN  IF ~e.ok THEN Raise(e.err, <<>>)
             ELSE IF ~rest.ok THEN rest
             ELSE Ok(<<e.v>> \o rest.v)

resources_as_xml(resources, include_capabilities) ==
    IF include_capabilities /\ ~HasCapabilities(resources)
    THEN Raise("AttributeError", EmptyFile)
    ELSE LET inc == include_capabilities /\ Cardinality(DOMAIN resources.capabilities) > 0
             es == ElementsOf(resources.items)
         IN  IF ~es.ok THEN Raise(es.err, EmptyFile)
             ELSE Ok(Document("urlset",
                              IF inc THEN add_capabilities_to_etree(resources.capabilities)
                              ELSE <<>>,
                              es.v))

\* sitemaps is write()'s dict as <<[file, mtime]>>; keys is the order in which
\* sitemaps.keys() yields the files
sitemapindex_as_xml(smaps, keys, inventory, include_capabilities) ==
    LET inc == include_capabilities /\ Cardinality(DOMAIN inventory.capabilities) > 0
        mtime(file) == (CHOOSE s \in Range(smaps) : s.file = file).mtime
        loc(file) == IF dst_to_src(file).ok THEN dst_to_src(file).uri
                     ELSE <<"file://">> \o file
        smr(file) == Resource(loc(file), Some(mtime(file)), None, None, None)
    IN  IF mapper = "None" /\ Len(keys) > 0 THEN Raise("AttributeError", EmptyFile)
        ELSE Ok(Document("sitemapindex",
                         IF inc THEN add_capabilities_to_etree(inventory.capabilities)
                         ELSE <<>>,
                         [i \in 1..Len(keys) |->
                             resource_etree_element(smr(keys[i]), "sitemap").v]))

\* ------------------------------------------------------ get_resources_chunk

\* the for loop of lines 140-143: append until the list is longer than the
\* threshold or the iterator is exhausted
RECURSIVE Pull(_, _)
Pull(list, it) ==
    IF it = <<>> THEN [list |-> list, it |-> it]
    ELSE LET l2 == Append(list, Head(it))
         IN  IF Len(l2) > max_sitemap_entries THEN [list |-> l2, it |-> Tail(it)]
             ELSE Pull(l2, Tail(it))

\* get_resources_chunk without lines 144-145: the overflow item stays in the
\* chunk and no next is returned
get_resources_chunk_nopop(resource_iter, first) ==
    LET start == IF IsNone(first) THEN <<>> ELSE <<Val(first)>>
        p == Pull(start, resource_iter)
    IN  [chunk |-> p.list, next |-> None, it |-> p.it, peak |-> Len(p.list)]

\* get_resources_chunk without lines 138-139: the carry-over is not prepended
get_resources_chunk_dropfirst(resource_iter, first) ==
    LET p == Pull(<<>>, resource_iter)
        over == Len(p.list) > max_sitemap_entries
    IN  [chunk |-> IF over THEN SubSeq(p.list, 1, Len(p.list) - 1) ELSE p.list,
         next |-> IF over THEN Some(p.list[Len(p.list)]) ELSE None,
         it |-> p.it,
         peak |-> Len(p.list)]

\* get_resources_chunk with >= for > at lines 142 and 144
RECURSIVE PullOffByOne(_, _)
PullOffByOne(list, it) ==
    IF it = <<>> THEN [list |-> list, it |-> it]
    ELSE LET l2 == Append(list, Head(it))
         IN  IF Len(l2) >= max_sitemap_entries THEN [list |-> l2, it |-> Tail(it)]
             ELSE PullOffByOne(l2, Tail(it))

get_resources_chunk_offbyone(resource_iter, first) ==
    LET start == IF IsNone(first) THEN <<>> ELSE <<Val(first)>>
        p == PullOffByOne(start, resource_iter)
        over == Len(p.list) >= max_sitemap_entries /\ Len(p.list) > 0
    IN  [chunk |-> IF over THEN SubSeq(p.list, 1, Len(p.list) - 1) ELSE p.list,
         next |-> IF over THEN Some(p.list[Len(p.list)]) ELSE None,
         it |-> p.it,
         peak |-> Len(p.list)]

get_resources_chunk(resource_iter, first) ==
    LET start == IF IsNone(first) THEN <<>> ELSE <<Val(first)>>
        p == Pull(start, resource_iter)
        over == Len(p.list) > max_sitemap_entries
    IN  [chunk |-> IF over THEN SubSeq(p.list, 1, Len(p.list) - 1) ELSE p.list,
         next |-> IF over THEN Some(p.list[Len(p.list)]) ELSE None,
         it |-> p.it,
         peak |-> Len(p.list)]

\* ------------------------------------------------------- containers: add

HasURI(container, u) == \E i \in DOMAIN container.items : container.items[i].uri = u

\* Inventory.add raises InventoryDupeError for a URI it holds; ChangeSet.add
\* appends
add(container, r) ==
    IF container.type # "ChangeSet" /\ HasURI(container, r.uri)
    THEN Raise("InventoryDupeError", container)
    ELSE Ok([container EXCEPT !.items = Append(@, r)])

\* --------------------------------------------------- the parse entry points

Parsed(ok, kind, etree, container, created) ==
    [ok |-> ok, err |-> [kind |-> kind, etree |-> etree], container |-> container,
     created |-> created]

\* the loop over the found elements: resource_from_etree, add, count;
\* catch_dupe is the try/except InventoryDupeError of lines 392-396
RECURSIVE AddElements(_, _, _, _)
AddElements(elements, container, created, catch_dupe) ==
    IF elements = <<>> THEN Parsed(TRUE, "", None, container, created)
    ELSE LET r == resource_from_etree(Head(elements))
             a == add(container, r.v)
         IN  IF ~r.ok THEN Parsed(FALSE, r.err, None, container, created)
             ELSE IF ~a.ok /\ ~catch_dupe
                  THEN Parsed(FALSE, a.err, None, container, created)
             ELSE AddElements(Tail(elements), IF a.ok THEN a.v ELSE container,
                              created + 1, catch_dupe)

\* the root check shared by the three entry points; `created` is the value
\* the counter has when an error leaves it untouched
ParseRoot(etree, container, created, expected, other, tag, catch_dupe) ==
    IF ~etree.xml THEN Parsed(FALSE, "ParseError", None, container, created)
    ELSE IF etree.root = expected
         THEN LET p == AddElements(findall(etree, tag), container, 0, catch_dupe)
              IN  [p EXCEPT !.created = Some(@)]
    ELSE IF etree.root = other
         THEN Parsed(FALSE, "SitemapIndexError", Some(etree), container, created)
    ELSE Parsed(FALSE, "ValueError", None, container, created)

\* inventory_parse_xml with the return of line 398 inside the loop: only the
\* first <url> is added
inventory_parse_xml_return_in_loop(etree, inventory, created) ==
    ParseRoot([etree EXCEPT !.children = IF findall(etree, "url") = <<>> THEN <<>>
                                         ELSE <<Head(findall(etree, "url"))>>],
              inventory, created, "urlset", "sitemapindex", "url", TRUE)

\* inventory_parse_xml without the try/except of lines 392-396
inventory_parse_xml_no_catch(etree, inventory, created) ==
    ParseRoot(etree, inventory, created, "urlset", "sitemapindex", "url", FALSE)

inventory_parse_xml(etree, inventory, created) ==
    ParseRoot(etree, inventory, created, "urlset", "sitemapindex", "url", TRUE)

\* changeset_parse_xml raising SitemapIndexError without the etree
changeset_parse_xml_no_etree(etree, changeset, created) ==
    LET p == ParseRoot(etree, changeset, created, "urlset", "sitemapindex", "url", FALSE)
    IN  [p EXCEPT !.err.etree = None]

changeset_parse_xml(etree, changeset, created) ==
    ParseRoot(etree, changeset, created, "urlset", "sitemapindex", "url", FALSE)

sitemapindex_parse_xml(etree, sitemapindex, created) ==
    ParseRoot(etree, sitemapindex, created, "sitemapindex", "urlset", "sitemap", FALSE)


\* --------------------------------------------------------- initial values

ResURI(i) == <<"http://example.org/res">> \o DecimalDigits(i)

\* the hex digest text of the i-th resource's payload
RECURSIVE Concat(_)
Concat(strs) == IF strs = <<>> THEN "" ELSE Head(strs) \o Concat(Tail(strs))
Md5Of(i) == Concat(<<"md5-">> \o DecimalDigits(i))

\* the i-th resource of a source: every field populated, or the URI alone
SourceResource(i, profile) ==
    IF profile = "full"
    THEN Resource(ResURI(i), Some(10 + i), Some(100 + i), Some(Md5Of(i)), None)
    ELSE Resource(ResURI(i), None, None, None, None)

\* SourceInventory.generate: the capabilities of a source with a change memory
ChangesetCapability ==
    <<"http://example.org/sitemap", "1">> :> [type |-> [str |-> TRUE, v |-> "changeset"]]

Container(type, items, capabilities) ==
    [type |-> type, items |-> items, capabilities |-> capabilities]

EmptyInventory == Container("Inventory", <<>>, <<>>)

NoError == [kind |-> "", etree |-> None]

WriteIdle ==
    /\ wpc = "idle" /\ werr = "" /\ chunk = <<>> /\ next = None /\ peak = 0
    /\ first_arg = None /\ pulled_from = <<>>
    /\ sitemaps = <<>>

\* no Source, no generate() and no resyncsim Inventory in this behaviour
SourceIdle ==
    /\ repository = <<>> /\ max_res_id = 0 /\ max_events = 0 /\ no_events = 0
    /\ iterations = 0 /\ notified = <<>> /\ mpc = "" /\ updating = None /\ assigned = <<>>

GenerateIdle ==
    /\ gpc = "idle" /\ gkeys = {} /\ gkey = None /\ ginv = <<>>
    /\ gstart = {} /\ gdeleted = {}

InventoryIdle ==
    /\ current_resources = <<>> /\ deleted_resources = <<>> /\ updated_resources = <<>>
    /\ last_call = None

\* no read() completed yet, no call of the element codec, no simulator
NoCall ==
    /\ calls = 0 /\ codec_arg = <<>> /\ codec_ret = <<>>
    /\ SourceIdle /\ GenerateIdle /\ InventoryIdle

ReadIdleAt(location, target) ==
    /\ uri = location /\ r_resources = target /\ r_initial = target
    /\ entry = "" /\ rpc = "idle" /\ rerr = NoError
    /\ todo = <<>> /\ sitemaps_created = None
    /\ resources_created = None /\ content_length = None /\ bytes_read = 0
    /\ fetched = <<>>

\* Sitemap(...) built, then write(resources, basename) about to be called
InitWrite ==
    /\ mode = "write"
    /\ max_sitemap_entries \in 0..MaxT
    /\ allow_multifile \in BOOLEAN
    /\ mapper \in {"None", "Maps", "NoRule"}
    /\ remote_length = TRUE
    /\ fs = <<>>
    /\ now = 1
    /\ \E n \in 0..MaxN, profile \in {"full", "bare"},
          caps \in {<<>>, ChangesetCapability} :
          w_resources = Container("Inventory",
                                  [i \in 1..n |-> SourceResource(i, profile)], caps)
    /\ basename \in {<<"/tmp/sitemap", ".xml">>, <<"/tmp/other">>}
    /\ resources_iter = w_resources.items
    /\ WriteIdle
    /\ ReadIdleAt(basename, EmptyInventory)
    /\ index_order = <<>>
    /\ NoCall

\* ------------------------------------------------------------------ write

WriteFail(kind) ==
    /\ wpc' = "failed"
    /\ werr' = kind

\* open(name, 'w'): the file exists and is empty until something is written
Truncate(files, name) == (name :> EmptyFile) @@ files

\* write() is called by the caller of the codec or by write_static_inventory
WriteEnabled == mode \in {"write", "static"}

\* lines 84-89 and 117-123: the first chunk, then the capacity check or the
\* single sitemap
write_first ==
    /\ WriteEnabled /\ wpc = "idle"
    /\ LET g == get_resources_chunk(resources_iter, None)
           xml == resources_as_xml(List(g.chunk), TRUE)
       IN  /\ chunk' = g.chunk
           /\ next' = g.next
           /\ resources_iter' = g.it
           /\ peak' = g.peak
           /\ first_arg' = None
           /\ pulled_from' = resources_iter
           /\ IF ~IsNone(g.next)
              THEN /\ IF ~allow_multifile
                      THEN WriteFail("Exception")
                      ELSE wpc' = "sitemaps" /\ werr' = werr
                   /\ fs' = fs
              ELSE /\ fs' = IF xml.ok THEN (basename :> xml.v) @@ fs
                            ELSE Truncate(fs, basename)
                   /\ IF xml.ok THEN wpc' = "done" /\ werr' = werr
                      ELSE WriteFail(xml.err)
    /\ UNCHANGED <<cfgvars, svars, xvars, now, w_resources, basename, sitemaps, rvars>>

\* lines 99-109: one turn of the loop writes a sitemap and pulls the next chunk
write_sitemap ==
    /\ WriteEnabled /\ wpc = "sitemaps" /\ Len(chunk) > 0
    /\ LET file == PartFile(basename, Len(sitemaps))
           xml == resources_as_xml(List(chunk), FALSE)
           g == get_resources_chunk(resources_iter, next)
       IN  IF xml.ok
           THEN /\ fs' = (file :> xml.v) @@ fs
                /\ sitemaps' = Append(sitemaps, [file |-> file, mtime |-> now])
                /\ now' = now + 1
                /\ chunk' = g.chunk
                /\ next' = g.next
                /\ resources_iter' = g.it
                /\ peak' = g.peak
                /\ first_arg' = next
                /\ pulled_from' = resources_iter
                /\ UNCHANGED <<wpc, werr>>
           ELSE /\ fs' = Truncate(fs, file)
                /\ WriteFail(xml.err)
                /\ UNCHANGED <<sitemaps, now, chunk, next, resources_iter, peak, first_arg,
                               pulled_from>>
    /\ UNCHANGED <<cfgvars, svars, xvars, w_resources, basename, rvars>>

\* dict.keys() of write()'s sitemaps: every file once, in no promised order
KeyOrders(smaps) == Perms({s.file : s \in Range(smaps)})

\* lines 110-116: the sitemapindex, once the loop has ended
write_sitemapindex ==
    /\ WriteEnabled /\ wpc = "sitemaps" /\ Len(chunk) = 0
    /\ \E keys \in KeyOrders(sitemaps) :
          LET xml == sitemapindex_as_xml(sitemaps, keys, w_resources, TRUE)
          IN  /\ fs' = IF xml.ok THEN (basename :> xml.v) @@ fs
                       ELSE Truncate(fs, basename)
              /\ IF xml.ok THEN wpc' = "done" /\ werr' = werr
                 ELSE WriteFail(xml.err)
    /\ UNCHANGED <<cfgvars, svars, xvars, now, w_resources, basename, resources_iter, chunk, next,
                   first_arg, pulled_from, peak, sitemaps, rvars>>

NextWrite == write_first \/ write_sitemap \/ write_sitemapindex

SpecWrite == InitWrite /\ [][NextWrite]_vars

\* ------------------------------------------------------------------- read

\* URLopener().open(location): the local file of a file: URI or path, the
\* served document of any other URI
PathOf(location) ==
    IF Len(location) > 0 /\ Head(location) = "file://" THEN Tail(location) ELSE location

CanOpen(location) == PathOf(location) \in DOMAIN fs

Fetch(location) == fs[PathOf(location)]

\* the Content-Length of a document
LengthOf(doc) == IF doc.xml THEN 10 + Len(doc.children) + Len(doc.links) ELSE 0

\* whether fh.info() has a Content-Length: always for a local file
HasLength(location) == is_file_uri(location) \/ remote_length

ReadFail(kind, etree) ==
    /\ rpc' = "failed"
    /\ rerr' = [kind |-> kind, etree |-> etree]

ReadEnabled == mode = "read" \/ (mode = "write" /\ wpc \in {"done", "failed"})

\* lines 157-183 and 211-213: open the location, parse, dispatch on the root
read_open ==
    /\ ReadEnabled /\ rpc = "idle"
    /\ LET has_length == HasLength(uri) IN
       IF ~CanOpen(uri)
       THEN /\ ReadFail("Exception", None)
            /\ UNCHANGED <<r_resources, todo, sitemaps_created, resources_created,
                           content_length, bytes_read, fetched>>
       ELSE
       LET etree == Fetch(uri)
           inv == inventory_parse_xml(etree, r_resources, resources_created)
           idx == sitemapindex_parse_xml(etree, Container("SitemapIndex", <<>>, <<>>),
                                         Some(0))
       IN  /\ fetched' = Append(fetched, uri)
           /\ content_length' = IF has_length THEN Some(LengthOf(etree)) ELSE content_length
           /\ bytes_read' = IF has_length THEN bytes_read + LengthOf(etree) ELSE bytes_read
           /\ IF ~etree.xml
              THEN /\ ReadFail("ParseError", None)
                   /\ UNCHANGED <<r_resources, todo, sitemaps_created, resources_created>>
              ELSE IF etree.root = "urlset"
              THEN /\ r_resources' = inv.container
                   /\ resources_created' = inv.created
                   /\ todo' = todo
                   /\ IF inv.ok
                      THEN /\ sitemaps_created' = Some(1)
                           /\ rpc' = "done"
                           /\ rerr' = rerr
                      ELSE /\ sitemaps_created' = Some(0)
                           /\ ReadFail(inv.err.kind, inv.err.etree)
              ELSE IF etree.root = "sitemapindex"
              THEN /\ UNCHANGED <<r_resources, resources_created>>
                   /\ IF ~allow_multifile
                      THEN /\ sitemaps_created' = Some(0)
                           /\ todo' = todo
                           /\ ReadFail("Exception", None)
                      ELSE /\ sitemaps_created' = idx.created
                           /\ IF idx.ok
                              THEN /\ todo' = sorted({r.uri : r \in Range(idx.container.items)})
                                   /\ rpc' = "sitemaps"
                                   /\ rerr' = rerr
                              ELSE /\ todo' = todo
                                   /\ ReadFail(idx.err.kind, idx.err.etree)
              ELSE /\ sitemaps_created' = Some(0)
                   /\ ReadFail("UnboundLocalError", None)
                   /\ UNCHANGED <<r_resources, todo, resources_created>>
    /\ UNCHANGED <<cfgvars, svars, xvars, fs, now, wvars, uri, r_initial, index_order>>
    /\ entry' = "read"

\* lines 188-196: the location at which a listed sitemap is opened
SitemapLocation(sitemap_uri) ==
    IF is_file_uri(uri) /\ ~is_file_uri(sitemap_uri)
    THEN IF mapper = "None" THEN Raise("AttributeError", sitemap_uri)
         ELSE IF ~src_to_dst(sitemap_uri).ok THEN Raise("MapperError", sitemap_uri)
         ELSE Ok(src_to_dst(sitemap_uri).file)
    ELSE Ok(sitemap_uri)

\* lines 187-210: one turn of the loop over the sorted sitemap locations
read_sitemap ==
    /\ ReadEnabled /\ rpc = "sitemaps" /\ todo # <<>>
    /\ LET loc == SitemapLocation(Head(todo))
           has_length == HasLength(loc.v)
       IN  IF ~loc.ok
           THEN /\ ReadFail(loc.err, None)
                /\ UNCHANGED <<r_resources, todo, sitemaps_created, resources_created,
                               content_length, bytes_read, fetched>>
           ELSE IF ~CanOpen(loc.v)
           THEN /\ ReadFail("Exception", None)
                /\ UNCHANGED <<r_resources, todo, sitemaps_created, resources_created,
                               content_length, bytes_read, fetched>>
           ELSE
           LET fh == Fetch(loc.v)
               length == IF has_length THEN Some(LengthOf(fh)) ELSE content_length
               inv == inventory_parse_xml(fh, r_resources, resources_created)
           IN  /\ fetched' = Append(fetched, loc.v)
               /\ content_length' = length
               /\ bytes_read' = IF has_length THEN bytes_read + LengthOf(fh) ELSE bytes_read
               /\ IF IsNone(length)
                  THEN \* "%d" % None at line 208
                       /\ ReadFail("TypeError", None)
                       /\ UNCHANGED <<r_resources, todo, sitemaps_created, resources_created>>
                  ELSE /\ r_resources' = inv.container
                       /\ resources_created' = inv.created
                       /\ IF inv.ok
                          THEN /\ sitemaps_created' = Some(Val(sitemaps_created) + 1)
                               /\ todo' = Tail(todo)
                               /\ UNCHANGED <<rpc, rerr>>
                          ELSE /\ ReadFail(inv.err.kind, inv.err.etree)
                               /\ UNCHANGED <<todo, sitemaps_created>>
    /\ UNCHANGED <<cfgvars, svars, xvars, fs, now, wvars, uri, r_initial, index_order>>
    /\ entry' = "read"

\* line 213: return(resources)
read_return ==
    /\ ReadEnabled /\ rpc = "sitemaps" /\ todo = <<>>
    /\ rpc' = "done"
    /\ UNCHANGED <<cfgvars, svars, xvars, fs, now, wvars, uri, r_resources, r_initial, entry, rerr, todo,
                   index_order,
                   sitemaps_created, resources_created, content_length, bytes_read,
                   fetched>>

NextReadSteps == read_open \/ read_sitemap \/ read_return

\* a direct call of one of the three parse entry points with etree = the
\* parsed document at uri and the container r_resources
ParseCall(name, p, counter_is_resources) ==
    /\ entry' = name
    /\ r_resources' = p.container
    /\ IF counter_is_resources
       THEN resources_created' = p.created /\ sitemaps_created' = sitemaps_created
       ELSE sitemaps_created' = p.created /\ resources_created' = resources_created
    /\ IF p.ok THEN rpc' = "done" /\ rerr' = rerr
       ELSE ReadFail(p.err.kind, p.err.etree)
    /\ UNCHANGED <<cfgvars, svars, xvars, fs, now, wvars, uri, r_initial, todo, index_order, content_length,
                   bytes_read, fetched>>

call_inventory_parse_xml ==
    /\ mode = "parse" /\ rpc = "idle" /\ CanOpen(uri) /\ Fetch(uri).xml
    /\ ParseCall("inventory_parse_xml",
                 inventory_parse_xml(Fetch(uri), r_resources, resources_created), TRUE)

call_changeset_parse_xml ==
    /\ mode = "parse" /\ rpc = "idle" /\ CanOpen(uri) /\ Fetch(uri).xml
    /\ ParseCall("changeset_parse_xml",
                 changeset_parse_xml(Fetch(uri), r_resources, resources_created), TRUE)

call_sitemapindex_parse_xml ==
    /\ mode = "parse" /\ rpc = "idle" /\ CanOpen(uri) /\ Fetch(uri).xml
    /\ ParseCall("sitemapindex_parse_xml",
                 sitemapindex_parse_xml(Fetch(uri), r_resources, sitemaps_created), FALSE)

NextParseCalls ==
    call_inventory_parse_xml \/ call_changeset_parse_xml \/ call_sitemapindex_parse_xml

\* ------------------------------------------------- documents to read from

BaseFile == <<"/tmp/sitemap", ".xml">>

\* the URI at which the source serves a file of its static directory
HttpOf(file) == <<"http://example.org/sitemap">> \o Tail(file)

\* the resources of the k-th of the sitemaps of a set: `per` each, with
\* disjoint URIs, or each sharing a URI with the sitemap before it
PartItems(k, per, layout) ==
    [j \in 1..per |->
        SourceResource(IF layout = "disjoint" THEN (k - 1) * per + j ELSE k + j - 1, "full")]

PartDoc(k, per, layout) ==
    resources_as_xml(Container("Inventory", PartItems(k, per, layout), <<>>), FALSE).v

PartLocation(k, style) ==
    IF style = "http" \/ (style = "mixed" /\ k > 1) THEN HttpOf(PartFile(BaseFile, k - 1))
    ELSE <<"file://">> \o PartFile(BaseFile, k - 1)

\* a sitemapindex listing the sitemaps in the given order
IndexDoc(order, style) ==
    Document("sitemapindex", <<>>,
             [i \in 1..Len(order) |->
                 resource_etree_element(
                     Resource(PartLocation(order[i], style), Some(order[i]), None, None, None),
                     "sitemap").v])

\* a single sitemap of n resources; with layout "overlap" the first URI is
\* listed once more at the end, with another timestamp
SingleDoc(n, layout) ==
    LET items == [j \in 1..n |-> SourceResource(j, "full")]
        again == [SourceResource(1, "full") EXCEPT !.timestamp = Some(99)]
    IN  resources_as_xml(Container("Inventory",
                                   IF layout = "overlap" /\ n > 0 THEN Append(items, again)
                                   ELSE items,
                                   <<>>), FALSE).v

OtherDoc == Document("html", <<>>, <<>>)

\* the sitemaps of a set, as files and as served documents
PartFiles(parts, per, layout) ==
    [name \in {PartFile(BaseFile, k - 1) : k \in 1..parts}
              \cup {HttpOf(PartFile(BaseFile, k - 1)) : k \in 1..parts} |->
        PartDoc(CHOOSE k \in 1..parts :
                    name \in {PartFile(BaseFile, k - 1), HttpOf(PartFile(BaseFile, k - 1))},
                per, layout)]

\* a document whose last record is damaged: its <rs:size> is no number or a
\* negative one, or its <loc> is missing or empty
Damage(doc, defect) ==
    IF defect \notin {"badsize", "noloc", "negsize", "emptyloc"} \/ doc.children = <<>> THEN doc
    ELSE [doc EXCEPT !.children[Len(doc.children)] =
                        IF defect = "badsize" THEN [@ EXCEPT !.size = Some(Garbled)]
                        ELSE IF defect = "negsize" THEN [@ EXCEPT !.size = Some(StrOfInt(-1))]
                        ELSE IF defect = "emptyloc" THEN [@ EXCEPT !.loc = Some(<<>>)]
                        ELSE [@ EXCEPT !.loc = None]]

\* the sitemap files with the last of them damaged, or gone
DamagedFiles(files, parts, defect) ==
    LET last == {PartFile(BaseFile, parts - 1), HttpOf(PartFile(BaseFile, parts - 1))}
    IN  IF defect = "gone" THEN [n \in DOMAIN files \ last |-> files[n]]
        ELSE [n \in DOMAIN files |-> IF n \in last THEN Damage(files[n], defect) ELSE files[n]]

\* what may be wrong with a set: nothing, its last sitemap gone or damaged,
\* or an index that lists the first sitemap as a file and the others by URI
Defects == {"none", "gone", "badsize", "noloc", "mixed"}

ReadTargets ==
    {EmptyInventory,
     Container("ChangeSet", <<>>, <<>>),
     Container("ChangeSet", <<[SourceResource(9, "full") EXCEPT !.changetype = Some("CREATED")]>>,
               <<>>),
     Container("Inventory", <<[SourceResource(1, "full") EXCEPT !.timestamp = Some(5)]>>, <<>>)}

\* Sitemap(...) built, the documents in place, then read(uri, resources) or
\* one of the parse entry points about to be called
InitRead ==
    /\ max_sitemap_entries = MaxT
    /\ now = 1
    /\ w_resources = EmptyInventory /\ basename = BaseFile /\ resources_iter = <<>>
    /\ WriteIdle
    /\ uri \in {BaseFile, HttpOf(BaseFile)}
    /\ \E top \in {"sitemapindex", "urlset", "other", "empty", "missing"} :
          \/ /\ top = "sitemapindex"
             /\ \E parts \in 0..MaxParts, style \in {"http", "file"},
                   per \in 0..MaxPer, layout \in {"disjoint", "overlap"} :
                \E order \in Perms(1..parts), defect \in Defects :
                   /\ defect # "none" =>
                         /\ parts >= 2 /\ per >= 1 /\ layout = "disjoint"
                         /\ order = [i \in 1..parts |-> i]
                         /\ defect = "mixed" => style = "http"
                   /\ index_order = order
                   /\ fs = (uri :> IndexDoc(order, IF defect = "mixed" THEN "mixed" ELSE style))
                            @@ DamagedFiles(PartFiles(parts, per, layout), parts, defect)
                   /\ mode \in (IF defect = "none" THEN {"read", "parse"} ELSE {"read"})
          \/ /\ top = "urlset"
             /\ index_order = <<>>
             /\ \E per \in 0..MaxPer, layout \in {"disjoint", "overlap"},
                   defect \in {"none", "badsize", "noloc", "negsize", "emptyloc"} :
                   /\ defect # "none" => (per >= 2 /\ layout = "disjoint")
                   /\ fs = (uri :> Damage(SingleDoc(per, layout), defect))
             /\ mode \in {"read", "parse"}
          \/ /\ top = "other"
             /\ index_order = <<>>
             /\ fs = (uri :> OtherDoc)
             /\ mode \in {"read", "parse"}
          \/ /\ top = "empty"
             /\ index_order = <<>>
             /\ fs = (uri :> EmptyFile)
             /\ mode = "read"
          \/ /\ top = "missing"
             /\ index_order = <<>>
             /\ fs = <<>>
             /\ mode = "read"
    /\ IF mode = "read"
       THEN /\ allow_multifile \in BOOLEAN
            /\ mapper \in {"None", "Maps", "NoRule"}
            /\ remote_length \in (IF is_file_uri(uri) THEN {TRUE} ELSE BOOLEAN)
       ELSE \* the parse entry points read neither setting nor location
            /\ allow_multifile = TRUE /\ mapper = "None" /\ remote_length = TRUE
            /\ uri = BaseFile
    /\ \E target \in ReadTargets :
          /\ r_resources = target /\ r_initial = target
          /\ entry = "" /\ rpc = "idle" /\ rerr = NoError
          /\ todo = <<>> /\ sitemaps_created = None
          /\ resources_created = None /\ content_length = None /\ bytes_read = 0
          /\ fetched = <<>>
    /\ NoCall

\* read() called once more on the same codec instance, for the same location
\* and with a container like the first: the statistics of the instance stay
read_again ==
    /\ mode = "read" /\ entry = "read" /\ rpc \in {"done", "failed"}
    /\ calls + 1 < MaxCalls
    /\ calls' = calls + 1
    /\ rpc' = "idle" /\ entry' = "" /\ rerr' = NoError
    /\ todo' = <<>> /\ fetched' = <<>>
    /\ r_resources' = r_initial
    /\ UNCHANGED <<cfgvars, svars, fs, now, wvars, uri, r_initial, index_order, sitemaps_created,
                   resources_created, content_length, bytes_read, codec_arg, codec_ret>>

NextRead == NextReadSteps \/ NextParseCalls \/ read_again

SpecRead == InitRead /\ [][NextRead]_vars

\* ---------------------------------------- get_resources_chunk called alone

\* an item handed over as carry-over: a resource the iterator does not yield
CarryOver(profile) == SourceResource(0, profile)

InitChunk ==
    /\ mode = "chunk"
    /\ max_sitemap_entries \in 0..MaxT
    /\ allow_multifile = TRUE
    /\ mapper = "None"
    /\ remote_length = TRUE
    /\ fs = <<>>
    /\ now = 1
    /\ basename = BaseFile
    /\ wpc = "idle" /\ werr = "" /\ chunk = <<>> /\ peak = 0 /\ sitemaps = <<>>
    /\ \E n \in 0..MaxN, profile \in {"full", "bare"} :
          /\ w_resources = Container("Inventory",
                                     [i \in 1..n |-> SourceResource(i, profile)], <<>>)
          /\ first_arg \in {None, Some(CarryOver(profile))}
    /\ \E k \in 0..Len(w_resources.items) :
          resources_iter = SubSeq(w_resources.items, k + 1, Len(w_resources.items))
    /\ pulled_from = resources_iter
    /\ next = None
    /\ ReadIdleAt(BaseFile, EmptyInventory)
    /\ index_order = <<>>
    /\ NoCall

call_get_resources_chunk ==
    /\ mode = "chunk" /\ wpc = "idle"
    /\ LET g == get_resources_chunk(resources_iter, first_arg)
       IN  /\ chunk' = g.chunk
           /\ next' = g.next
           /\ resources_iter' = g.it
           /\ peak' = g.peak
    /\ wpc' = "returned"
    /\ UNCHANGED <<cfgvars, svars, xvars, fs, now, w_resources, basename, werr, first_arg, pulled_from,
                   sitemaps, rvars>>

SpecChunk == InitChunk /\ [][call_get_resources_chunk]_vars

\* ------------------------------------------- the element codec called alone

\* resources to serialise: each optional field absent or present, and a
\* change type that is absent, one of the three known, or another word
CodecResources ==
    {Resource(ResURI(1), ts, sz, md, ct) :
        ts \in {None, Some(11), Some(12)}, sz \in {None, Some(101)},
        md \in {None, Some(Md5Of(1))},
        ct \in {None, Some("CREATED"), Some("UPDATED"), Some("DELETED"), Some("MOVED")}}

\* the texts an element may carry where a W3C datetime is expected
DatetimeTexts == {lastmod_get(11), lastmod_get(12), Garbled}

\* <url> elements to parse: each child absent or present, well-formed or not
CodecElements ==
    {[tag |-> "url", loc |-> loc, lastmod |-> lm, expires |-> ex, size |-> sz, fixity |-> fx] :
        loc \in {None, Some(ResURI(1))},
        lm \in {None} \cup {Some([text |-> t, type |-> ty]) :
                               t \in {None} \cup {Some(x) : x \in DatetimeTexts},
                               ty \in {None, Some("created"), Some("updated"), Some("moved")}},
        ex \in {None} \cup {Some(x) : x \in {lastmod_get(20), Garbled}},
        sz \in {None, Some(StrOfInt(101)), Some(Garbled)},
        fx \in {None, Some([type |-> Some("md5"), text |-> Some(StrOfStr(Md5Of(1)))]),
                Some([type |-> Some("sha-1"), text |-> Some(StrOfStr(Md5Of(1)))]),
                Some([type |-> None, text |-> Some(StrOfStr(Md5Of(1)))])}}

\* the capabilities a container may declare: up to MaxCaps capability URIs,
\* each with a dictionary of attributes
CapURI(i) == <<"http://example.org/sitemap", Digits[i + 1]>>

AttSets ==
    {<<>>,
     "type" :> [str |-> TRUE, v |-> "changeset"],
     "attributes" :> [str |-> FALSE, v |-> <<"next", "prev">>],
     "rel" :> [str |-> TRUE, v |-> "self"],
     "href" :> [str |-> TRUE, v |-> "http://example.org/elsewhere"]}

CapabilitySets ==
    UNION {[{CapURI(i) : i \in U} -> AttSets] : U \in SUBSET (1..MaxCaps)}

CodecCalls ==
    {[fn |-> "resource_etree_element", resource |-> r, element_name |-> n] :
        r \in CodecResources, n \in {"url", "sitemap"}}
    \cup {[fn |-> "resource_from_etree", etree |-> e] : e \in CodecElements}
    \cup {[fn |-> "resources_as_xml",
           resources |-> Container("Inventory", [i \in 1..n |-> SourceResource(i, "full")], caps),
           include_capabilities |-> inc] :
             n \in 0..1, caps \in CapabilitySets, inc \in BOOLEAN}

InitCodec ==
    /\ mode = "codec"
    /\ max_sitemap_entries = MaxT
    /\ allow_multifile = TRUE
    /\ mapper = "None"
    /\ remote_length = TRUE
    /\ fs = <<>>
    /\ now = 1
    /\ w_resources = EmptyInventory /\ basename = BaseFile /\ resources_iter = <<>>
    /\ WriteIdle
    /\ ReadIdleAt(BaseFile, EmptyInventory)
    /\ index_order = <<>>
    /\ calls = 0
    /\ codec_arg \in {Some(a) : a \in CodecCalls}
    /\ codec_ret = None
    /\ SourceIdle /\ GenerateIdle /\ InventoryIdle

CodecCall(fn) == mode = "codec" /\ IsNone(codec_ret) /\ Val(codec_arg).fn = fn

CodecReturn(result) ==
    /\ codec_ret' = Some(result)
    /\ UNCHANGED <<cfgvars, svars, fs, now, wvars, rvars, calls, codec_arg>>

call_resource_etree_element ==
    /\ CodecCall("resource_etree_element")
    /\ CodecReturn(resource_etree_element(Val(codec_arg).resource, Val(codec_arg).element_name))

call_resource_from_etree ==
    /\ CodecCall("resource_from_etree")
    /\ CodecReturn(resource_from_etree(Val(codec_arg).etree))

call_resources_as_xml ==
    /\ CodecCall("resources_as_xml")
    /\ CodecReturn(resources_as_xml(Val(codec_arg).resources,
                                    Val(codec_arg).include_capabilities))

NextCodec == call_resource_etree_element \/ call_resource_from_etree \/ call_resources_as_xml

SpecCodec == InitCodec /\ [][NextCodec]_vars

\* ------------------------------- the static inventory written periodically

\* re.compile('sitemap\d*\.xml').match(f): 'sitemap', any digits, '.xml'
\* at the start of the name
SitemapPattern_no_digits(f) ==
    Len(f) >= 2 /\ Head(f) = "/tmp/sitemap" /\ f[2] = ".xml"

SitemapPattern(f) ==
    /\ Len(f) >= 2 /\ Head(f) = "/tmp/sitemap"
    /\ \E k \in 2..Len(f) : f[k] = ".xml" /\ \A j \in 2..(k - 1) : f[j] \in Range(Digits)

\* StaticSourceInventory.delete_sitemap_files: what is left of the directory
delete_sitemap_files(files) ==
    [f \in {g \in DOMAIN files : ~SitemapPattern(g)} |-> files[f]]

\* a file of the static directory that is no sitemap
StaticPage == <<"/tmp/sitemap", ".html">>

\* StaticSourceInventory(source, config) built: the sitemap files of earlier
\* processes are deleted (line 80) and the job is scheduled
InitStatic ==
    /\ mode = "static"
    /\ max_sitemap_entries \in 1..MaxT
    /\ allow_multifile = TRUE
    /\ mapper = "Maps"
    /\ remote_length = TRUE
    /\ fs \in {<<>>, StaticPage :> OtherDoc}
    /\ now = 1
    /\ w_resources = EmptyInventory /\ basename = BaseFile /\ resources_iter = <<>>
    /\ wpc = "scheduled" /\ werr = "" /\ chunk = <<>> /\ next = None /\ peak = 0
    /\ first_arg = None /\ pulled_from = <<>> /\ sitemaps = <<>>
    /\ ReadIdleAt(BaseFile, EmptyInventory)
    /\ index_order = <<>>
    /\ NoCall

\* source.py:96-105: generate() snapshots the source, the sitemap files are
\* deleted, and a new Sitemap writes the inventory at <static>/sitemap.xml
write_static_inventory ==
    /\ mode = "static" /\ wpc \in {"scheduled", "done", "failed"}
    /\ calls < MaxRuns
    /\ calls' = calls + 1
    /\ \E n \in 0..MaxN, caps \in {<<>>, ChangesetCapability} :
          w_resources' = Container("Inventory", [i \in 1..n |-> SourceResource(i, "full")],
                                   caps)
    /\ fs' = delete_sitemap_files(fs)
    /\ resources_iter' = w_resources'.items
    /\ wpc' = "idle" /\ werr' = "" /\ chunk' = <<>> /\ next' = None /\ peak' = 0
    /\ first_arg' = None /\ pulled_from' = <<>> /\ sitemaps' = <<>>
    /\ UNCHANGED <<cfgvars, svars, now, basename, rvars, codec_arg, codec_ret>>

NextStatic == write_static_inventory \/ NextWrite

SpecStatic == InitStatic /\ [][NextStatic]_vars

\* ------------------------- two sitemaps of a large set: named, then ordered

\* the location write() gives a sitemap file in the index
IndexLocation(file) ==
    IF dst_to_src(file).ok THEN dst_to_src(file).uri ELSE <<"file://">> \o file

\* sequence numbers write() may have reached, around each change in the
\* number of digits
SequenceNumbers == {0, 1, 9, 10, 11, 99, 100, 9999, 10000, 10001, 99998, 99999, 100000, 100001}

\* write() is at its j-th and at its k-th sitemap (j < k) of one set
InitOrder ==
    /\ mode = "order"
    /\ max_sitemap_entries = MaxT
    /\ allow_multifile = TRUE
    /\ mapper \in {"Maps", "NoRule"}
    /\ remote_length = TRUE
    /\ fs = <<>>
    /\ now = 1
    /\ w_resources = EmptyInventory /\ resources_iter = <<>>
    /\ basename \in {<<"/tmp/sitemap", ".xml">>, <<"/tmp/other">>}
    /\ WriteIdle
    /\ ReadIdleAt(basename, Container("ChangeSet", <<>>, <<>>))
    /\ index_order = <<>>
    /\ calls = 0
    /\ codec_arg \in {Some([fn |-> "write", j |-> j, k |-> k]) : j, k \in SequenceNumbers}
    /\ Val(codec_arg).j < Val(codec_arg).k
    /\ codec_ret = None
    /\ SourceIdle /\ GenerateIdle /\ InventoryIdle

\* sitemap.py:100 and 460-469: the names write() gives the two sitemaps, and
\* the locations the sitemapindex lists for them
write_names ==
    /\ mode = "order" /\ IsNone(codec_ret) /\ todo = <<>>
    /\ codec_ret' = Some([j |-> IndexLocation(PartFile(basename, Val(codec_arg).j)),
                           k |-> IndexLocation(PartFile(basename, Val(codec_arg).k))])
    /\ UNCHANGED <<cfgvars, svars, fs, now, wvars, rvars, calls, codec_arg>>

\* sitemap.py:187: the order in which read() visits the two locations
read_order ==
    /\ mode = "order" /\ ~IsNone(codec_ret) /\ todo = <<>>
    /\ todo' = sorted({Val(codec_ret).j, Val(codec_ret).k})
    /\ UNCHANGED <<cfgvars, svars, xvars, fs, now, wvars, uri, r_resources, r_initial, entry, rpc, rerr,
                   index_order, sitemaps_created, resources_created, content_length,
                   bytes_read, fetched>>

NextOrder == write_names \/ read_order

SpecOrder == InitOrder /\ [][NextOrder]_vars

\* ------------------------------------------- Source: the change simulation

\* the codec is not in use
CodecIdle ==
    /\ max_sitemap_entries = MaxT /\ allow_multifile = TRUE /\ mapper = "None"
    /\ remote_length = TRUE /\ fs = <<>>
    /\ w_resources = EmptyInventory /\ basename = BaseFile /\ resources_iter = <<>>
    /\ WriteIdle
    /\ ReadIdleAt(BaseFile, EmptyInventory)
    /\ index_order = <<>>
    /\ calls = 0 /\ codec_arg = <<>> /\ codec_ret = <<>>

\* config['event_types']: the three supported types and one that is not
EventTypes == {"create", "update", "delete", "move"}

\* a value of the repository: {'timestamp': ts, 'size': sz}
Entry(ts, sz) == [timestamp |-> ts, size |-> sz]

\* random.randint(0, average_payload): the generator's next number, which
\* depends on how often it has been asked (once per clock tick)
randint(time) == time % (MaxPayload + 1)

\* del repo[b]
Without(repo, b) == [k \in DOMAIN repo \ {b} |-> repo[k]]

\* ChangeEvent(type, self.resource(basename))
ChangeEvent(type, b) == [type |-> type, basename |-> b]

\* Source._bootstrap: n times _create_resource(notify_observers = False);
\* a basename str(k) is modelled by the number k
RECURSIVE _bootstrap(_)
_bootstrap(n) ==
    IF n = 0 THEN [repository |-> <<>>, max_res_id |-> 1, time |-> 1]
    ELSE LET b == _bootstrap(n - 1)
         IN  [repository |-> (b.max_res_id :> Entry(b.time, randint(b.time))) @@ b.repository,
              max_res_id |-> b.max_res_id + 1,
              time |-> b.time + 1]

\* Source(config, hostname, port) built and bootstrapped
InitSource ==
    /\ mode = "source"
    /\ CodecIdle
    /\ \E n \in 0..MaxBoot :
          /\ repository = _bootstrap(n).repository
          /\ max_res_id = _bootstrap(n).max_res_id
          /\ now = _bootstrap(n).time
          /\ assigned = [i \in 1..n |-> i]
    /\ max_events \in 0..MaxEvents
    /\ no_events = 0 /\ iterations = 0 /\ notified = <<>>
    /\ mpc = "idle" /\ updating = None
    /\ GenerateIdle /\ InventoryIdle

\* source.py:209-214: simulate_changes is called
simulate_changes ==
    /\ mode = "source" /\ mpc = "idle"
    /\ mpc' = "loop" /\ no_events' = 0
    /\ UNCHANGED <<cfgvars, fs, now, wvars, rvars, xvars, repository, max_res_id, max_events,
                   iterations, notified, updating, assigned, genvars, invvars>>

\* line 215: the loop condition holds and a turn begins
LoopTurn ==
    /\ mode = "source" /\ mpc = "loop" /\ no_events # max_events
    /\ iterations <= MaxEvents
    /\ iterations' = iterations + 1

\* what a delete on the main thread leaves of generate()'s bookkeeping
Deleted(b) == IF gpc \in {"iterating", "reading"} THEN gdeleted \cup {b} ELSE gdeleted

\* event_on_empty without line 227: the turn ends without counting
event_on_empty_no_count ==
    /\ LoopTurn /\ DOMAIN repository = {}
    /\ UNCHANGED <<cfgvars, fs, now, wvars, rvars, xvars, repository, max_res_id, max_events,
                   no_events, notified, mpc, updating, assigned, genvars, invvars>>

\* lines 220-228: update or delete drawn while the repository is empty
event_on_empty ==
    /\ LoopTurn /\ DOMAIN repository = {}
    /\ no_events' = no_events + 1
    /\ UNCHANGED <<cfgvars, fs, now, wvars, rvars, xvars, repository, max_res_id, max_events,
                   notified, mpc, updating, assigned, genvars, invvars>>

\* lines 234-236: an event type that is not supported
event_unsupported ==
    /\ LoopTurn
    /\ no_events' = no_events + 1
    /\ UNCHANGED <<cfgvars, fs, now, wvars, rvars, xvars, repository, max_res_id, max_events,
                   notified, mpc, updating, assigned, genvars, invvars>>

\* lines 218-219 and 242-252: _create_resource() with a new basename
event_create ==
    /\ LoopTurn
    /\ repository' = (max_res_id :> Entry(now, randint(now))) @@ repository
    /\ assigned' = Append(assigned, max_res_id)
    /\ max_res_id' = max_res_id + 1
    /\ now' = now + 1
    /\ notified' = Append(notified, ChangeEvent("CREATE", max_res_id))
    /\ no_events' = no_events + 1
    /\ UNCHANGED <<cfgvars, fs, wvars, rvars, xvars, max_events, mpc, updating, genvars,
                   invvars>>

\* lines 231-232 and 261-268: _delete_resource(basename)
event_delete ==
    /\ LoopTurn
    /\ \E b \in DOMAIN repository :
          /\ repository' = Without(repository, b)
          /\ notified' = Append(notified, ChangeEvent("DELETE", b))
          /\ gdeleted' = Deleted(b)
    /\ no_events' = no_events + 1
    /\ UNCHANGED <<cfgvars, fs, now, wvars, rvars, xvars, max_res_id, max_events, mpc, updating,
                   assigned, gpc, gkeys, gkey, ginv, gstart, invvars>>

\* lines 229-230 and 256: _update_resource(basename) has deleted the entry
\* (no event), and has not yet created it again
event_update ==
    /\ LoopTurn
    /\ \E b \in DOMAIN repository :
          /\ repository' = Without(repository, b)
          /\ updating' = Some(b)
    /\ mpc' = "updating"
    /\ UNCHANGED <<cfgvars, fs, now, wvars, rvars, xvars, max_res_id, max_events, no_events,
                   notified, assigned, genvars, invvars>>

\* update_create with line 257 as _create_resource(basename): the CREATE event
\* of the inner call is notified too
update_create_notifies_create ==
    /\ mode = "source" /\ mpc = "updating"
    /\ repository' = (Val(updating) :> Entry(now, randint(now))) @@ repository
    /\ now' = now + 1
    /\ notified' = notified \o <<ChangeEvent("CREATE", Val(updating)),
                                  ChangeEvent("UPDATE", Val(updating))>>
    /\ no_events' = no_events + 1
    /\ mpc' = "loop" /\ updating' = None
    /\ UNCHANGED <<cfgvars, fs, wvars, rvars, xvars, max_res_id, max_events, iterations,
                   assigned, genvars, invvars>>

\* lines 257-259 and 236: the entry is created again under its basename, the
\* UPDATE event is notified and the turn ends
update_create ==
    /\ mode = "source" /\ mpc = "updating"
    /\ repository' = (Val(updating) :> Entry(now, randint(now))) @@ repository
    /\ now' = now + 1
    /\ notified' = Append(notified, ChangeEvent("UPDATE", Val(updating)))
    /\ no_events' = no_events + 1
    /\ mpc' = "loop" /\ updating' = None
    /\ UNCHANGED <<cfgvars, fs, wvars, rvars, xvars, max_res_id, max_events, iterations,
                   assigned, genvars, invvars>>

\* lines 215 and 238: the loop condition fails and simulate_changes returns
simulate_changes_return ==
    /\ mode = "source" /\ mpc = "loop" /\ no_events = max_events
    /\ mpc' = "finished"
    /\ UNCHANGED <<cfgvars, fs, now, wvars, rvars, xvars, repository, max_res_id, max_events,
                   no_events, iterations, notified, updating, assigned, genvars, invvars>>

NextMain ==
    \/ simulate_changes \/ event_on_empty \/ event_unsupported \/ event_create
    \/ event_delete \/ event_update \/ update_create \/ simulate_changes_return

\* --------------------------- SourceInventory.generate on the scheduler thread

\* source.py:56-58 and 163-164: reset(), then the iteration over
\* source.resources begins with a copy of the repository's keys
generate ==
    /\ mode = "source" /\ gpc = "idle"
    /\ ginv' = <<>>
    /\ gkeys' = DOMAIN repository /\ gkey' = None
    /\ gstart' = DOMAIN repository /\ gdeleted' = {}
    /\ gpc' = "iterating"
    /\ UNCHANGED <<cfgvars, fs, now, wvars, rvars, xvars, srcvars, invvars>>

\* lines 164-169, 183 and 59: the next key, in the dictionary's order (any);
\* Source.resource(basename) tests has_key, and for a basename that is gone
\* it returns None, which generate() skips
resource_has_key ==
    /\ mode = "source" /\ gpc = "iterating"
    /\ \E b \in gkeys :
          /\ gkeys' = gkeys \ {b}
          /\ IF b \in DOMAIN repository
             THEN gpc' = "reading" /\ gkey' = Some(b)
             ELSE gpc' = gpc /\ gkey' = None
    /\ UNCHANGED <<cfgvars, fs, now, wvars, rvars, xvars, srcvars, ginv, gstart, gdeleted,
                   invvars>>

\* lines 184-189 and 59: the entry is read and the resource added to the
\* inventory; KeyError if the entry has gone since has_key
resource_read ==
    /\ mode = "source" /\ gpc = "reading"
    /\ IF Val(gkey) \in DOMAIN repository
       THEN /\ ginv' = (Val(gkey) :> repository[Val(gkey)]) @@ ginv
            /\ gpc' = "iterating"
       ELSE /\ gpc' = "failed"
            /\ ginv' = ginv
    /\ gkey' = None
    /\ UNCHANGED <<cfgvars, fs, now, wvars, rvars, xvars, srcvars, gkeys, gstart, gdeleted,
                   invvars>>

\* lines 61-63: the keys are exhausted and generate() returns
generate_return ==
    /\ mode = "source" /\ gpc = "iterating" /\ gkeys = {}
    /\ gpc' = "done"
    /\ UNCHANGED <<cfgvars, fs, now, wvars, rvars, xvars, srcvars, gkeys, gkey, ginv, gstart,
                   gdeleted, invvars>>

NextGenerate == generate \/ resource_has_key \/ resource_read \/ generate_return

NextSource == NextMain \/ NextGenerate

SpecSource == InitSource /\ [][NextSource]_vars

\* the main thread is scheduled as long as it has a step to take
SpecSourceLive == SpecSource /\ WF_vars(NextMain)

\* ------------------------------------- Inventory (resyncsim/inventory.py)

\* dict(id = res_id, lm = util.current_datetime(), pl = util.generate_payload(...))
Res(res_id, time) == [id |-> res_id, lm |-> time, pl |-> randint(time)]

\* Inventory.__init__: n times create_resource()
RECURSIVE Seeded(_)
Seeded(n) ==
    IF n = 0 THEN [current_resources |-> <<>>, max_res_id |-> 0, time |-> 1]
    ELSE LET b == Seeded(n - 1)
         IN  [current_resources |-> (b.max_res_id :> Res(b.max_res_id, b.time))
                                        @@ b.current_resources,
              max_res_id |-> b.max_res_id + 1,
              time |-> b.time + 1]

\* the identifiers a caller may pass: those assigned so far and some never
\* assigned
Ids == 0..(MaxBoot + MaxEvents)

\* Inventory(no_resources) built
InitInventory ==
    /\ mode = "inventory"
    /\ CodecIdle
    /\ \E n \in 0..MaxBoot :
          /\ current_resources = Seeded(n).current_resources
          /\ max_res_id = Seeded(n).max_res_id
          /\ now = Seeded(n).time
          /\ assigned = [i \in 1..n |-> i - 1]
    /\ deleted_resources = <<>> /\ updated_resources = <<>> /\ last_call = None
    /\ repository = <<>> /\ max_events = 0 /\ no_events = 0 /\ iterations = 0
    /\ notified = <<>> /\ mpc = "" /\ updating = None
    /\ GenerateIdle

\* the call made, whether it returned, and the inventory as it was before
Call(op, res_id, ok) ==
    Some([op |-> op, id |-> res_id, ok |-> ok,
          before |-> [current_resources |-> current_resources,
                      deleted_resources |-> deleted_resources,
                      updated_resources |-> updated_resources,
                      max_res_id |-> max_res_id]])

InventoryCall ==
    /\ mode = "inventory" /\ calls < MaxEvents
    /\ calls' = calls + 1

\* create_resource with the identifier taken from the number of current
\* resources in place of max_res_id
create_resource_id_by_count ==
    /\ InventoryCall
    /\ LET res_id == Cardinality(DOMAIN current_resources)
       IN  /\ current_resources' = (res_id :> Res(res_id, now)) @@ current_resources
           /\ assigned' = Append(assigned, res_id)
           /\ last_call' = Call("create", res_id, TRUE)
    /\ max_res_id' = max_res_id + 1
    /\ now' = now + 1
    /\ UNCHANGED <<cfgvars, fs, wvars, rvars, codec_arg, codec_ret, repository, max_events,
                   no_events, iterations, notified, mpc, updating, genvars,
                   deleted_resources, updated_resources>>

\* inventory.py:39-50: create_resource() without an identifier
create_resource ==
    /\ InventoryCall
    /\ current_resources' = (max_res_id :> Res(max_res_id, now)) @@ current_resources
    /\ assigned' = Append(assigned, max_res_id)
    /\ max_res_id' = max_res_id + 1
    /\ now' = now + 1
    /\ last_call' = Call("create", max_res_id, TRUE)
    /\ UNCHANGED <<cfgvars, fs, wvars, rvars, codec_arg, codec_ret, repository, max_events,
                   no_events, iterations, notified, mpc, updating, genvars,
                   deleted_resources, updated_resources>>

\* update_resource that keeps the new version in updated_resources
update_resource_stores_new ==
    /\ InventoryCall
    /\ \E res_id \in Ids :
          IF res_id \notin DOMAIN current_resources
          THEN /\ last_call' = Call("update", res_id, FALSE)
               /\ UNCHANGED <<current_resources, updated_resources, now>>
          ELSE /\ current_resources' = (res_id :> Res(res_id, now)) @@ current_resources
               /\ updated_resources' = (res_id :> Res(res_id, now)) @@ updated_resources
               /\ now' = now + 1
               /\ last_call' = Call("update", res_id, TRUE)
    /\ UNCHANGED <<cfgvars, fs, wvars, rvars, codec_arg, codec_ret, srcvars, genvars,
                   deleted_resources>>

\* lines 52-57: update_resource(res_id); KeyError at line 54 for an
\* identifier that is not current
update_resource ==
    /\ InventoryCall
    /\ \E res_id \in Ids :
          IF res_id \notin DOMAIN current_resources
          THEN /\ last_call' = Call("update", res_id, FALSE)
               /\ UNCHANGED <<current_resources, updated_resources, now>>
          ELSE /\ current_resources' = (res_id :> Res(res_id, now)) @@ current_resources
               /\ updated_resources' = (res_id :> current_resources[res_id])
                                           @@ updated_resources
               /\ now' = now + 1
               /\ last_call' = Call("update", res_id, TRUE)
    /\ UNCHANGED <<cfgvars, fs, wvars, rvars, codec_arg, codec_ret, srcvars, genvars,
                   deleted_resources>>

\* lines 59-64: delete_resource(res_id); KeyError at line 61 for an
\* identifier that is not current
delete_resource ==
    /\ InventoryCall
    /\ \E res_id \in Ids :
          IF res_id \notin DOMAIN current_resources
          THEN /\ last_call' = Call("delete", res_id, FALSE)
               /\ UNCHANGED <<current_resources, deleted_resources>>
          ELSE /\ deleted_resources' = (res_id :> current_resources[res_id])
                                           @@ deleted_resources
               /\ current_resources' = Without(current_resources, res_id)
               /\ last_call' = Call("delete", res_id, TRUE)
    /\ UNCHANGED <<cfgvars, fs, now, wvars, rvars, codec_arg, codec_ret, srcvars, genvars,
                   updated_resources>>

NextInventory == create_resource \/ update_resource \/ delete_resource

\* either simulator
InitSim == InitSource \/ InitInventory

NextSim == NextSource \/ NextInventory

SpecSim == InitSim /\ [][NextSim]_vars

\* write(), then read() of what it left at the basename
Init == InitWrite

Next == NextWrite \/ NextReadSteps

Spec == Init /\ [][Next]_vars

\* ===================================================== properties: write

N == Len(w_resources.items)
T == max_sitemap_entries

WriteEnded == wpc \in {"done", "failed"}

\* the files write() has created or modified, apart from the basename
PartNames == DOMAIN fs \ {basename}

\* the batch written to the k-th sitemap (k = 0, 1, ...), <<>> if none was
BatchOf(k) ==
    IF PartFile(basename, k) \in DOMAIN fs THEN fs[PartFile(basename, k)].children ELSE <<>>

RECURSIVE BatchesFrom(_, _)
BatchesFrom(k, count) ==
    IF k >= count THEN <<>> ELSE BatchOf(k) \o BatchesFrom(k + 1, count)

\* the elements of everything the container's iterator yields
AllElements == ElementsOf(w_resources.items).v

CeilDiv(a, b) == (a + b - 1) \div b

\* the locations an index document lists, in document order
ListedLocations(doc) ==
    [i \in 1..Len(findall(doc, "sitemap")) |-> Val(findall(doc, "sitemap")[i].loc)]

ChunkingHolds ==
    /\ wpc = "done"
    /\ PartNames = {PartFile(basename, k) : k \in 0..(CeilDiv(N, T) - 1)}
    /\ Cardinality(PartNames) = CeilDiv(N, T)
    /\ \A k \in 0..(CeilDiv(N, T) - 2) : Len(BatchOf(k)) = T /\ fs[PartFile(basename, k)].xml
    /\ Len(BatchOf(CeilDiv(N, T) - 1)) \in 1..T
    /\ basename \in DOMAIN fs
    /\ fs[basename].xml /\ fs[basename].root = "sitemapindex"
    /\ Len(ListedLocations(fs[basename])) = CeilDiv(N, T)
    /\ Range(ListedLocations(fs[basename])) = {IndexLocation(f) : f \in PartNames}

\* C1: with multi-document output enabled and T >= 1, write() of N > T
\* resources ends having produced exactly ceil(N/T) sitemaps, all of T
\* resources but the last, which has 1..T, and one sitemapindex at the
\* basename listing every sitemap exactly once
C1_Chunking ==
    (mode = "write" /\ allow_multifile /\ T >= 1 /\ N > T /\ WriteEnded) => ChunkingHolds

\* the same for a codec that was given a mapper (with or without a rule for
\* the files): this part of C1 the code keeps
C1_ChunkingWithMapper ==
    (mode = "write" /\ allow_multifile /\ T >= 1 /\ N > T /\ WriteEnded /\ mapper # "None")
        => ChunkingHolds

C1_ChunkingWithMapper_Reached ==
    /\ mode = "write" /\ allow_multifile /\ T = 1 /\ N = 2 /\ wpc = "done"
    /\ mapper = "NoRule"

\* C2: with multi-document output disabled, write() of more than T resources
\* fails, and when it has failed no file has been created or modified
C2_CapacityFailure ==
    (mode = "write" /\ ~allow_multifile /\ N > T /\ wpc # "idle")
        => (wpc = "failed" /\ werr = "Exception" /\ fs = <<>>)

C2_Reached ==
    /\ mode = "write" /\ ~allow_multifile /\ N = T + 1 /\ T >= 1
    /\ wpc = "failed" /\ werr = "Exception"

\* C3: write() of 1 <= N <= T resources completes and writes exactly one
\* document, at the basename, holding all N resources; no sitemap part and no
\* index
C3_SingleDocument ==
    (mode = "write" /\ N >= 1 /\ N <= T /\ WriteEnded)
        => /\ wpc = "done"
           /\ DOMAIN fs = {basename}
           /\ fs[basename].xml /\ fs[basename].root = "urlset"
           /\ fs[basename].children = AllElements

\* C4: write() of a container with no resources creates or modifies no file
C4_EmptyWritesNothing ==
    (mode = "write" /\ N = 0) => fs = <<>>

\* what multi-document write() has consumed so far: the batches written, the
\* chunk in hand, the overflow item and what the iterator still holds are the
\* iterator's sequence, in order
BatchesInOrder ==
    /\ wpc = "sitemaps" =>
          /\ BatchesFrom(0, Len(sitemaps)) \o ElementsOf(chunk).v
                \o ElementsOf(next).v \o ElementsOf(resources_iter).v = AllElements
          /\ ~IsNone(first_arg) => (chunk # <<>> /\ chunk[1] = Val(first_arg))
    /\ (WriteEnded /\ N > T /\ allow_multifile) =>
          /\ BatchesFrom(0, Len(sitemaps)) = AllElements
          /\ PartNames = {PartFile(basename, k) : k \in 0..(Len(sitemaps) - 1)}

\* C5 as stated: for every threshold
C5_BatchesInOrder_AnyThreshold == mode = "write" => BatchesInOrder

\* C5, for T >= 1: in multi-document write() the batches written to the
\* sitemaps, in sequence-number order, are the iterator's sequence (nothing
\* lost, repeated or reordered), and the overflow item of one pull is the
\* first item of the next batch
C5_BatchesInOrder == (mode = "write" /\ T >= 1) => BatchesInOrder

C5_Reached ==
    /\ mode = "write" /\ T = 2 /\ N = 4 /\ wpc = "sitemaps" /\ Len(sitemaps) = 1
    /\ ~IsNone(first_arg) /\ chunk[1] = Val(first_arg) /\ Len(chunk) = 2

\* C6: what get_resources_chunk(iterator, carry-over) returns
ChunkInput == (IF IsNone(first_arg) THEN <<>> ELSE <<Val(first_arg)>>) \o pulled_from

ChunkContract ==
    /\ Len(chunk) <= T
    /\ chunk = SubSeq(ChunkInput, 1, Len(chunk))
    /\ ~IsNone(next) <=> Len(ChunkInput) > T
    /\ ~IsNone(next) => (Len(chunk) = T /\ Val(next) = ChunkInput[T + 1])
    /\ IsNone(next) => chunk = ChunkInput
    /\ resources_iter = SubSeq(ChunkInput, Len(chunk) + Len(next) + 1, Len(ChunkInput))
    /\ peak <= T + 1

Populated(r) == ~IsNone(r.timestamp) /\ ~IsNone(r.size) /\ ~IsNone(r.md5)

Fields(r) == <<r.uri, r.timestamp, r.size, r.md5>>

ReadEnded == rpc \in {"done", "failed"}

\* C7: an Inventory of N <= T resources with uri, timestamp, size and digest
\* populated is written and, read back from the same location, gives the
\* same URIs with equal timestamp, size and digest
C7_RoundTrip ==
    (mode = "write" /\ N <= T /\ (\A r \in Range(w_resources.items) : Populated(r))
        /\ WriteEnded)
        => /\ wpc = "done"
           /\ ReadEnded =>
                /\ rpc = "done"
                /\ {Fields(r) : r \in Range(r_resources.items)}
                      = {Fields(r) : r \in Range(w_resources.items)}
                /\ Len(r_resources.items) = N

\* what the element mapping itself keeps: a multi-document write read back
\* through its index gives the records written, in order
RoundTripThroughIndex ==
    (mode = "write" /\ N > T /\ T >= 1 /\ rpc = "done")
        => r_resources.items = w_resources.items

IsIndexRead ==
    /\ mode = "read" /\ CanOpen(uri) /\ Fetch(uri).xml
    /\ Fetch(uri).root = "sitemapindex"

\* the k-th sitemap of the set, as the source put it in place
PartChildren(k) == fs[PartFile(BaseFile, k - 1)].children

PartRecords(k) == {resource_from_etree(e).v : e \in Range(PartChildren(k))}

PartURIs(k) == {r.uri : r \in PartRecords(k)}

ListedParts == 1..Len(index_order)

PartsDisjoint ==
    \A j, k \in ListedParts : j # k => PartURIs(j) \cap PartURIs(k) = {}

RECURSIVE SumOfParts(_)
SumOfParts(k) == IF k = 0 THEN 0 ELSE Len(PartChildren(k)) + SumOfParts(k - 1)

\* C8: read() of an index whose sitemaps hold pairwise disjoint URI sets
\* returns a container with as many resources as the sitemaps hold together,
\* and the records are the union of the sitemaps' records whatever the order
\* in which the index lists them
C8_MergeDisjoint ==
    (IsIndexRead /\ rpc = "done" /\ r_initial.items = <<>> /\ PartsDisjoint)
        => /\ Len(r_resources.items) = SumOfParts(Len(index_order))
           /\ Range(r_resources.items) = UNION {PartRecords(k) : k \in ListedParts}

C8_Reached ==
    /\ IsIndexRead /\ rpc = "done" /\ r_initial.items = <<>> /\ PartsDisjoint
    /\ index_order = <<3, 1, 2>>
    /\ Len(r_resources.items) = 6

RootAt(location) == Fetch(location).root

Mismatch ==
    /\ mode = "parse" /\ rpc # "idle"
    /\ \/ entry \in {"inventory_parse_xml", "changeset_parse_xml"}
             /\ RootAt(uri) = "sitemapindex"
       \/ entry = "sitemapindex_parse_xml" /\ RootAt(uri) = "urlset"

\* C9: inventory_parse_xml and changeset_parse_xml given a sitemapindex root,
\* and sitemapindex_parse_xml given a urlset root, fail with
\* SitemapIndexError carrying the parsed tree, and add no record
C9_MismatchDetected ==
    Mismatch => /\ rpc = "failed"
                /\ rerr = [kind |-> "SitemapIndexError", etree |-> Some(Fetch(uri))]
                /\ r_resources = r_initial

C9_Reached ==
    /\ Mismatch /\ entry = "sitemapindex_parse_xml" /\ rerr.kind = "SitemapIndexError"
    /\ r_initial.items # <<>> /\ Len(Fetch(uri).children) = 2

\* C10: read() of a document whose root is neither urlset nor sitemapindex
\* fails with ValueError, the error the parse entry points raise for such a
\* root, and adds no record
C10_UnknownRoot ==
    (mode = "read" /\ rpc # "idle" /\ CanOpen(uri) /\ Fetch(uri).xml
        /\ RootAt(uri) \notin {"urlset", "sitemapindex"})
        => /\ rpc = "failed"
           /\ rerr.kind = "ValueError"
           /\ r_resources = r_initial

\* the entry points do raise ValueError for that root
UnknownRootAtEntryPoints ==
    (mode = "parse" /\ rpc # "idle" /\ RootAt(uri) \notin {"urlset", "sitemapindex"})
        => (rpc = "failed" /\ rerr.kind = "ValueError" /\ r_resources = r_initial)

\* ============================================ properties: the element codec

Returned(fn) == mode = "codec" /\ Val(codec_arg).fn = fn /\ ~IsNone(codec_ret)

\* the element a resource was serialised to has a <lastmod> with this rs:type
\* (None: no such attribute) and no <expires>
HasLastmod(e, type) ==
    /\ ~IsNone(e.lastmod) /\ Val(e.lastmod).type = type
    /\ IsNone(e.expires)

HasExpires(e) == ~IsNone(e.expires) /\ IsNone(e.lastmod)

\* what the element says of the change type of the resource given
KindEncoded ==
    LET ct == Val(codec_arg).resource.changetype
        e == Val(codec_ret)
    IN  /\ e.ok
        /\ IsNone(ct) => HasLastmod(e.v, None)
        /\ ct = Some("CREATED") => HasLastmod(e.v, Some("created"))
        /\ ct = Some("UPDATED") => HasLastmod(e.v, Some("updated"))
        /\ ct = Some("DELETED") => HasExpires(e.v)

KnownKind(r) == r.changetype \in {None, Some("CREATED"), Some("UPDATED"), Some("DELETED")}

\* C11 as stated: for every resource record
C11_KindEncoding_EveryRecord ==
    (Returned("resource_etree_element") /\ KnownKind(Val(codec_arg).resource))
        => KindEncoded

\* C11, for a record that has a timestamp: DELETED gives an <expires> and no
\* <lastmod>; CREATED and UPDATED give a <lastmod> with rs:type created and
\* updated; no change type gives a <lastmod> without rs:type
C11_KindEncoding ==
    (Returned("resource_etree_element") /\ KnownKind(Val(codec_arg).resource)
        /\ ~IsNone(Val(codec_arg).resource.timestamp))
        => KindEncoded

C11_Reached ==
    /\ Returned("resource_etree_element")
    /\ Val(codec_arg).resource.changetype = Some("DELETED")
    /\ Val(codec_arg).resource.timestamp = Some(12)
    /\ Val(codec_ret).v.expires = Some(lastmod_get(12))

\* C12: a record whose change type is present and is none of CREATED,
\* UPDATED, DELETED is not serialised: the call raises, with or without a
\* timestamp, and gives no element
C12_UnknownKindFails ==
    (Returned("resource_etree_element") /\ ~KnownKind(Val(codec_arg).resource))
        => /\ ~Val(codec_ret).ok
           /\ Val(codec_ret).err = "Exception"
           /\ Val(codec_ret).v = NoElement

\* the part of C12 the code keeps: with a timestamp the call raises
UnknownKindFailsWithTimestamp ==
    (Returned("resource_etree_element") /\ ~KnownKind(Val(codec_arg).resource)
        /\ ~IsNone(Val(codec_arg).resource.timestamp))
        => (~Val(codec_ret).ok /\ Val(codec_ret).err = "Exception")

WellFormedTimes(etree) ==
    /\ ~IsNone(etree.lastmod) /\ ~IsNone(etree.expires)
    /\ Val(etree.expires).k = "w3c"
    /\ ~IsNone(Val(etree.lastmod).text) => Val(Val(etree.lastmod).text).k = "w3c"

RecordsOf(doc) ==
    [i \in 1..Len(findall(doc, "url")) |-> resource_from_etree(findall(doc, "url")[i]).v]

RECURSIVE RecordsFrom(_)
RecordsFrom(locations) ==
    IF locations = <<>> THEN <<>>
    ELSE RecordsOf(Fetch(Head(locations))) \o RecordsFrom(Tail(locations))

\* the documents the call has parsed so far, in processing order
ProcessedLocations == IF entry = "read" THEN fetched ELSE <<uri>>

RECURSIVE FirstOccurrences(_, _)
FirstOccurrences(records, seen) ==
    IF records = <<>> THEN <<>>
    ELSE IF Head(records).uri \in seen THEN FirstOccurrences(Tail(records), seen)
    ELSE <<Head(records)>> \o FirstOccurrences(Tail(records), seen \cup {Head(records).uri})

\* C14: documents read into an Inventory that hold a URI more than once do
\* not make the parse fail; the container ends with one record per URI, the
\* first in processing order, and every record with a new URI is added
C14_Dedup ==
    (mode \in {"read", "parse"} /\ entry \in {"read", "inventory_parse_xml"}
        /\ r_initial.type = "Inventory")
        => /\ rerr.kind # "InventoryDupeError"
           /\ rpc = "done" =>
                r_resources.items
                   = FirstOccurrences(r_initial.items \o RecordsFrom(ProcessedLocations), {})

C14_Reached ==
    /\ mode = "read" /\ entry = "read" /\ rpc = "done" /\ Len(fetched) = 3
    /\ r_initial = EmptyInventory
    /\ Len(RecordsFrom(fetched)) = 4
    /\ r_resources.items = <<SourceResource(1, "full"), SourceResource(2, "full"),
                             SourceResource(3, "full")>>

\* C15: when read() fails part-way, the container the caller passed holds no
\* record of the failed read: it is as it was when the call began
C15_NoPartialRecords ==
    (mode = "read" /\ entry = "read" /\ rpc = "failed") => r_resources = r_initial

\* ============================================= properties: read, statistics

\* the content lengths of the documents opened, where the transport gives one
RECURSIVE LengthsOf(_)
LengthsOf(locations) ==
    IF locations = <<>> THEN 0
    ELSE (IF HasLength(Head(locations)) THEN LengthOf(Fetch(Head(locations))) ELSE 0)
         + LengthsOf(Tail(locations))

ReadReturned == mode = "read" /\ entry = "read" /\ rpc = "done"

\* C18: after a read() that returned, the first or a later one on the codec
\* instance, bytes_read is the sum of the content lengths of the documents
\* that call fetched
C18_BytesOfThisRead == ReadReturned => bytes_read = LengthsOf(fetched)

\* the part of C18 the code keeps: the first read() of an instance
BytesOfFirstRead == (ReadReturned /\ calls = 0) => bytes_read = LengthsOf(fetched)

\* C19: after a read() that returned, sitemaps_created is the number of
\* documents of resources parsed: 1 for a single sitemap, P for an index
\* that lists P sitemaps
C19_DocumentsCounted ==
    ReadReturned =>
        sitemaps_created = Some(IF RootAt(uri) = "urlset" THEN 1
                                ELSE Len(ListedLocations(Fetch(uri))))

\* the part of C19 the code keeps: a single sitemap counts 1
SingleDocumentCounted ==
    (ReadReturned /\ RootAt(uri) = "urlset") => sitemaps_created = Some(1)

\* ================================================= properties: read, order

\* the sequence of the locations S in ascending order of their strings
Ascending(S) == CHOOSE p \in Perms(S) : \A i, j \in DOMAIN p : i < j => LexLess(p[i], p[j])

\* C20: read() of an index into a ChangeSet appends sitemap by sitemap: the
\* sitemaps are taken in ascending order of the locations the index lists,
\* the records of each in document order and never mixed with another's,
\* behind the records the ChangeSet held before
C20_ChangeSetOrder ==
    (IsIndexRead /\ entry = "read" /\ r_initial.type = "ChangeSet"
        /\ rpc \in {"sitemaps", "done"})
        => LET listed == Range(ListedLocations(Fetch(uri)))
               visited == Ascending(listed \ Range(todo))
           IN  /\ \A v \in Range(visited), t \in Range(todo) : LexLess(v, t)
               /\ Tail(fetched) = [i \in DOMAIN visited |-> SitemapLocation(visited[i]).v]
               /\ r_resources.items = r_initial.items \o RecordsFrom(Tail(fetched))

C20_Reached ==
    /\ IsIndexRead /\ entry = "read" /\ r_initial.type = "ChangeSet" /\ rpc = "done"
    /\ index_order = <<3, 1, 2>>
    /\ Len(r_initial.items) = 1 /\ Len(r_resources.items) = 7
    /\ r_resources.items[1] = r_initial.items[1]
    /\ r_resources.items[2] = SourceResource(1, "full")
    /\ r_resources.items[7] = SourceResource(6, "full")

\* ================================================ properties: capabilities

\* the i-th link is for the i-th capability URI in ascending order: its href
\* is that URI, and it has every attribute of the capability, 'attributes'
\* under the name 'rel'
LinkFor(link, c, attset) ==
    /\ link.tag = "xhtml:link"
    /\ link.atts["href"].k = "uri" /\ link.atts["href"].v = c
    /\ DOMAIN link.atts
          = {"href"} \cup {IF a = "attributes" THEN "rel" ELSE a : a \in DOMAIN attset}

LinksRendered(links, capabilities) ==
    LET uris == Ascending(DOMAIN capabilities)
    IN  /\ Len(links) = Cardinality(DOMAIN capabilities)
        /\ \A i \in DOMAIN links : LinkFor(links[i], uris[i], capabilities[uris[i]])

\* C16: resources_as_xml gives no link for a container without capabilities
\* even when asked for them; for k >= 1 capabilities it gives k links, in
\* ascending order of the capability URIs, each with the URI as href whatever
\* the attributes of the capability
C16_CapabilityLinks ==
    Returned("resources_as_xml") =>
        LET a == Val(codec_arg)
            r == Val(codec_ret)
        IN  /\ r.ok
            /\ IF a.include_capabilities
               THEN LinksRendered(r.v.links, a.resources.capabilities)
               ELSE r.v.links = <<>>

\* the part of C16 the code keeps: capabilities none of which has an
\* attribute named href
CapabilityLinksWithoutHrefKey ==
    (Returned("resources_as_xml")
        /\ \A c \in DOMAIN Val(codec_arg).resources.capabilities :
              "href" \notin DOMAIN Val(codec_arg).resources.capabilities[c])
        => /\ Val(codec_ret).ok
           /\ Val(codec_arg).include_capabilities =>
                 LinksRendered(Val(codec_ret).v.links, Val(codec_arg).resources.capabilities)

\* C17: write() of a container that declares a capability leaves the links
\* in the document at the basename (the single sitemap, or the index), and
\* in no sitemap of a set
C17_CapabilitiesAtTopOnly ==
    (mode = "write" /\ DOMAIN w_resources.capabilities # {} /\ WriteEnded
        /\ (N <= T \/ allow_multifile))
        => /\ basename \in DOMAIN fs
           /\ fs[basename].xml
           /\ fs[basename].links = add_capabilities_to_etree(w_resources.capabilities)
           /\ \A f \in PartNames : fs[f].links = <<>>

\* the part of C17 the code keeps: a set written by a codec that has a mapper
CapabilitiesAtIndexOnly ==
    (mode = "write" /\ DOMAIN w_resources.capabilities # {} /\ WriteEnded
        /\ N > T /\ allow_multifile /\ mapper # "None")
        => /\ fs[basename].links = add_capabilities_to_etree(w_resources.capabilities)
           /\ Len(fs[basename].links) = 1
           /\ \A f \in PartNames : fs[f].links = <<>>

\* ------------------------------------------------------------------ C21

\* a record that satisfies the Resource data model: a non-empty uri, and a
\* size that is absent or not negative
WellFormedRecord(r) ==
    /\ r.uri # <<>>
    /\ IsNone(r.size) \/ Val(r.size) >= 0

\* C21: every record of the container the parser fills satisfies the Resource
\* data model: its uri is not empty and its size is absent or a non-negative
\* integer; a document record with an empty <loc> or a negative <rs:size> is
\* never stored.
C21_RecordsWellFormed ==
    mode \in {"read", "parse"} =>
        \A i \in 1..Len(r_resources.items) : WellFormedRecord(r_resources.items[i])

\* ------------------------------------------------------------------ C22

\* the number a sequence of decimal digits denotes
RECURSIVE NumberOf(_)
NumberOf(ds) ==
    IF ds = <<>> THEN 0
    ELSE 10 * NumberOf(SubSeq(ds, 1, Len(ds) - 1))
         + (CHOOSE d \in 0..9 : Digits[d + 1] = ds[Len(ds)])

\* the basename with one trailing '.xml' removed, if it has one
Stem == IF basename[Len(basename)] = ".xml" THEN SubSeq(basename, 1, Len(basename) - 1)
        ELSE basename

\* name is the stem, then five digits that denote k, then '.xml'
IsPartName(name, k) ==
    /\ Len(name) = Len(Stem) + PadWidth + 1
    /\ SubSeq(name, 1, Len(Stem)) = Stem
    /\ NumberOf(SubSeq(name, Len(Stem) + 1, Len(Stem) + PadWidth)) = k
    /\ name[Len(name)] = ".xml"

\* C22: in multi-document write() the k-th part written (k = 0, 1, ...) is
\* named stem + k zero-padded to 5 digits + '.xml', the stem being the
\* basename without one trailing '.xml'; the numbers used are 0..P-1 with no
\* gap or repeat, the part files on disk are exactly these, and none of them
\* is the basename.
C22_PartNames ==
    mode = "write" =>
        /\ \A i \in 1..Len(sitemaps) :
              /\ IsPartName(sitemaps[i].file, i - 1)
              /\ sitemaps[i].file # basename
        /\ DOMAIN fs \ {basename} = {sitemaps[i].file : i \in 1..Len(sitemaps)}
        /\ Cardinality(DOMAIN fs \ {basename}) = Len(sitemaps)

\* C22 witness: write() has ended after three parts and the index, for a
\* basename that ends in '.xml'
C22_Reached ==
    /\ mode = "write" /\ wpc = "done" /\ Len(sitemaps) >= 3
    /\ basename # Stem /\ basename \in DOMAIN fs

\* ------------------------------------------------------------------ C23

\* a location that is local: a file: URI or an absolute path
Local(location) == Head(location) \in {"file://", "/tmp/sitemap", "/tmp/other"}

\* the sitemap locations the index at uri lists, in the order read() takes them
ListedSorted == sorted(Range(ListedLocations(Fetch(uri))))

\* where the claim has a listed sitemap opened: at the mapper's translation
\* when the index is local and the sitemap is not, else where it is listed
ExpectedOpen(location) ==
    IF Local(uri) /\ ~Local(location)
    THEN (IF mapper = "Maps" THEN <<"/tmp/sitemap">> \o Tail(location) ELSE <<>>)
    ELSE location

\* C23: during read() of an index the mapper is applied to a sitemap location
\* exactly when the index location is local and the sitemap location is not;
\* otherwise the sitemap is opened at the listed location unchanged and the
\* mapper is not consulted (a missing mapper, or one without a rule, makes no
\* difference).
C23_MapperUse ==
    (IsIndexRead /\ entry = "read") =>
        /\ \A i \in 2..Len(fetched) : fetched[i] = ExpectedOpen(ListedSorted[i - 1])
        /\ rerr.kind \in {"AttributeError", "MapperError"} =>
              /\ Len(fetched) \in 1..Len(ListedSorted)
              /\ Local(uri) /\ ~Local(ListedSorted[Len(fetched)])
        /\ (rpc = "done" /\ allow_multifile) => Len(fetched) = Len(ListedSorted) + 1

\* C23 witness: an index read from a local path lists sitemaps by http URI,
\* and read() has returned after opening each at its translation
C23_Reached ==
    /\ IsIndexRead /\ entry = "read" /\ rpc = "done"
    /\ Local(uri) /\ Len(fetched) >= 3
    /\ \A i \in 2..Len(fetched) :
          ~Local(ListedSorted[i - 1]) /\ fetched[i] # ListedSorted[i - 1]

\* a second case of C23: an index fetched by http lists a local and a remote
\* sitemap, there is no mapper, and both were opened where they are listed
OpenedAsListedWithoutMapper ==
    /\ IsIndexRead /\ entry = "read" /\ rpc = "done"
    /\ ~Local(uri) /\ mapper = "None" /\ Len(fetched) >= 3
    /\ \E i \in 1..Len(ListedSorted) : Local(ListedSorted[i])
    /\ \E i \in 1..Len(ListedSorted) : ~Local(ListedSorted[i])

\* ------------------------------------------------------------------ C24

\* the files a run of write() for N resources creates: the basename, and one
\* part per T resources when they do not fit one document
FilesOfRun ==
    {basename} \cup (IF N > T THEN {PartFile(basename, k) : k \in 0..(CeilDiv(N, T) - 1)}
                     ELSE {})

\* C24: after every run of write_static_inventory, whatever the resource
\* counts of this and of earlier runs, the sitemap files in the static
\* directory (sitemap.xml and the sitemapNNNNN.xml parts) are exactly the
\* files this run wrote, holding records of this run's inventory: the cleanup
\* removed every file of earlier runs.
C24_OnlyLatestRun ==
    (mode = "static" /\ WriteEnded) =>
        /\ {f \in DOMAIN fs : f # StaticPage} = FilesOfRun
        /\ \A k \in 1..Len(sitemaps) :
              Range(fs[sitemaps[k].file].children) \subseteq Range(AllElements)

\* C24 witness: the second run has ended, and it wrote fewer parts than the
\* first (the clock ticks once per part written)
C24_Reached ==
    /\ mode = "static" /\ wpc = "done" /\ calls = 2
    /\ Len(sitemaps) >= 2
    /\ now - 1 - Len(sitemaps) > Len(sitemaps)
    /\ StaticPage \in DOMAIN fs

\* ------------------------------------------------------------------ C25

\* read() visits the j-th sitemap of the set before the k-th
VisitedInWriteOrder == todo = <<Val(codec_ret).j, Val(codec_ret).k>>

\* C25: a ChangeSet written in multi-document mode and read back through its
\* index comes back in the order written, for any number of sitemaps, also
\* when a sequence number needs more than 5 digits: the order of the
\* generated names that read() uses is the order of the sequence numbers
\* that write() used, so of any two sitemaps the one written first is read
\* first.
C25_PartOrder ==
    (mode = "order" /\ todo # <<>>) => VisitedInWriteOrder

\* the order of C25 holds while the sequence numbers have at most 5 digits
PartOrderUpToFiveDigits ==
    (mode = "order" /\ todo # <<>> /\ Val(codec_arg).k < 10 ^ PadWidth) => VisitedInWriteOrder

\* ------------------------------------------------------------------ C26

\* every turn of the loop begun has been counted once, but for the turn of an
\* update that is under way
TurnsCounted ==
    /\ no_events <= max_events
    /\ iterations = no_events + (IF mpc = "updating" THEN 1 ELSE 0)
    /\ mpc = "finished" => iterations = max_events

\* C26: simulate_changes terminates for every max_events >= 0 after exactly
\* max_events turns of its loop: every turn raises the event counter by
\* exactly one, also a turn that finds the repository empty on update or
\* delete and a turn with an unsupported event type.
C26_Terminates ==
    /\ [](mode = "source" => TurnsCounted)
    /\ (mode = "source") ~> (mpc = "finished")

\* C26 witness: simulate_changes has returned after MaxEvents turns, some of
\* which notified nothing, with the repository empty
C26_Reached ==
    /\ mode = "source" /\ mpc = "finished" /\ max_events = MaxEvents
    /\ iterations = max_events
    /\ Len(notified) < no_events /\ DOMAIN repository = {}

\* ------------------------------------------------------------------ C27

\* the key set after the events are replayed on a key set: CREATE adds the
\* resource, DELETE removes it, UPDATE leaves the set as it is
RECURSIVE Replay(_, _)
Replay(keys, events) ==
    IF events = <<>> THEN keys
    ELSE LET e == Head(events)
         IN  Replay(IF e.type = "CREATE" THEN keys \cup {e.basename}
                    ELSE IF e.type = "DELETE" THEN keys \ {e.basename}
                    ELSE keys,
                    Tail(events))

\* the key set _bootstrap left: the identifiers assigned before any event
Bootstrapped == {assigned[i] : i \in 1..(Len(assigned) - Cardinality({j \in DOMAIN notified :
                                                         notified[j].type = "CREATE"}))}

\* the number of events of a type notified so far
Count(type) == Cardinality({j \in DOMAIN notified : notified[j].type = type})

\* C27: between operations, replaying the notified events in order on the
\* bootstrapped key set gives the repository's key set; a create notifies one
\* CREATE, a delete one DELETE, and an update one UPDATE and no CREATE or
\* DELETE, leaving the key set as it was before the update.
C27_EventsReplay ==
    (mode = "source" /\ mpc \in {"idle", "loop", "finished"}) =>
        /\ Replay(Bootstrapped, notified) = DOMAIN repository
        /\ Len(notified) <= no_events
        /\ \A j \in DOMAIN notified :
              notified[j].type = "UPDATE" =>
                  Replay(Bootstrapped, SubSeq(notified, 1, j))
                      = Replay(Bootstrapped, SubSeq(notified, 1, j - 1))
                  /\ notified[j].basename \in Replay(Bootstrapped, SubSeq(notified, 1, j))

\* C27 witness: a create, an update and a delete have been notified and the
\* repository is not empty
C27_Reached ==
    /\ mode = "source" /\ mpc = "finished"
    /\ Count("CREATE") >= 1 /\ Count("UPDATE") >= 1 /\ Count("DELETE") >= 1
    /\ DOMAIN repository # {}

\* ------------------------------------------------------------------ C28

\* C28: when generate() on the scheduler thread interleaves with the change
\* simulation on the main thread, the inventory it returns holds no missing
\* entry, and it holds every resource that was in the repository when
\* generate() began and was not deleted during the call (it may have been
\* updated).
C28_GenerateComplete ==
    (mode = "source" /\ gpc = "done") =>
        /\ \A b \in DOMAIN ginv : ginv[b] \in {Entry(ts, sz) : ts \in 1..now, sz \in 0..MaxPayload}
        /\ (gstart \ gdeleted) \subseteq DOMAIN ginv

\* generate() returns: an entry that goes between has_key and the reads
\* (KeyError at line 185) does not end it
GenerateReturns == mode = "source" => gpc # "failed"

\* ------------------------------------------------------------------ C29

\* every identifier that is or was in the repository of either simulator
EverHeld ==
    Range(assigned) \cup DOMAIN repository \cup DOMAIN current_resources
    \cup DOMAIN deleted_resources \cup DOMAIN updated_resources

\* no identifier was assigned twice, and max_res_id is above them all
FreshIds ==
    /\ \A i, j \in DOMAIN assigned : i # j => assigned[i] # assigned[j]
    /\ \A id \in EverHeld : id < max_res_id

\* C29: in both simulators, over any sequence of creates without argument,
\* updates and deletes, every identifier assigned differs from every one
\* assigned before it, also after that resource was deleted; max_res_id never
\* decreases and is greater than every identifier that is or was in the
\* repository.
C29_FreshIds ==
    /\ [](mode \in {"source", "inventory"} => FreshIds)
    /\ [][max_res_id' >= max_res_id]_vars

\* C29 witness: the resyncsim Inventory has just assigned an identifier
\* after a resource created earlier was deleted
C29_Reached ==
    /\ mode = "inventory" /\ ~IsNone(last_call)
    /\ Val(last_call).op = "create"
    /\ DOMAIN deleted_resources # {}
    /\ Val(last_call).id \in DOMAIN current_resources
    /\ Val(last_call).id # Cardinality(DOMAIN Val(last_call).before.current_resources)

\* the same case in Source: a basename assigned after a delete was notified
FreshAfterDeleteInSource ==
    /\ mode = "source" /\ Len(notified) >= 2
    /\ notified[Len(notified)].type = "CREATE"
    /\ notified[Len(notified) - 1].type = "DELETE"

\* ------------------------------------------------------------------ C30

\* the inventory is as it was before the last call
AsBefore(c) ==
    /\ current_resources = c.before.current_resources
    /\ deleted_resources = c.before.deleted_resources
    /\ updated_resources = c.before.updated_resources
    /\ max_res_id = c.before.max_res_id

\* what the last call did to the inventory
LastCallEffect(c) ==
    LET was == c.before.current_resources IN
    /\ c.ok = (c.op = "create" \/ c.id \in DOMAIN was)
    /\ ~c.ok => AsBefore(c)
    /\ (c.ok /\ c.op = "delete") =>
          /\ DOMAIN current_resources = DOMAIN was \ {c.id}
          /\ c.id \in DOMAIN deleted_resources /\ deleted_resources[c.id] = was[c.id]
    /\ (c.ok /\ c.op = "update") =>
          /\ DOMAIN current_resources = DOMAIN was
          /\ c.id \in DOMAIN updated_resources /\ updated_resources[c.id] = was[c.id]

\* C30: in the resyncsim Inventory, after any sequence of create_resource(),
\* update_resource(id) and delete_resource(id) calls, current_resources and
\* deleted_resources have no key in common; delete_resource moves the current
\* version to deleted_resources; update_resource leaves the keys of
\* current_resources as they were and stores the replaced version in
\* updated_resources; and an update or delete of an identifier that is not
\* current fails and leaves the three dictionaries and max_res_id unchanged.
C30_InventoryBookkeeping ==
    mode = "inventory" =>
        /\ DOMAIN current_resources \cap DOMAIN deleted_resources = {}
        /\ ~IsNone(last_call) => LastCallEffect(Val(last_call))

\* C30 witness: a resource was updated and then deleted, and the last call
\* named an identifier that is not current, and failed
C30_Reached ==
    /\ mode = "inventory" /\ ~IsNone(last_call)
    /\ ~Val(last_call).ok
    /\ DOMAIN deleted_resources # {} /\ DOMAIN updated_resources # {}

====
